---- MODULE Spec2Model ----
(***************************************************************************)
(* A model of elf::elf_file (elf.hpp, the reader of ELF object files):     *)
(* the constructor's eager decode of the identification block, the file    *)
(* header, the program and section header tables and the lifecycle arrays, *)
(* parse_dynamic_segment (dynamic entries, string table, symbols, hash     *)
(* tables, relocations) and get_symbol (GNU-style and legacy lookup); and   *)
(* of luhns::card_number (luhns.hpp, the Luhn check of a card number).     *)
(*                                                                         *)
(* Representation of the C++ values:                                       *)
(*  - a std::vector is a sequence; C++ index i is element i + 1 (At);      *)
(*  - a uint64 value v is the integer r with v = r mod 2^64 and |r| small, *)
(*    so 0xFFFFFFFFFFFFFFFF is -1 and subtraction is exact (U64Less is the *)
(*    unsigned order);                                                     *)
(*  - a uint32 hash value is the pair <<high 16 bits, low 16 bits>>;       *)
(*  - a bloom word is the set of the positions of its 1 bits;              *)
(*  - a C string is the sequence of its bytes without the NUL; a pointer   *)
(*    into the dynamic string table is the integer StrTabBase + offset,    *)
(*    nullptr is 0;                                                        *)
(*  - the file is a record of regions keyed by file offset; a read of n    *)
(*    records at an offset succeeds when the region there holds n records. *)
(***************************************************************************)
EXTENDS Integers, Sequences, FiniteSets, TLC

VARIABLES file, elf, pc, ret, calls, card

vars == <<file, elf, pc, ret, calls, card>>

(***************************************************************************)
(* Program constants                                                       *)
(***************************************************************************)
ELFMAG0 == 127
ELFMAG1 == 69
ELFMAG2 == 76
ELFMAG3 == 70
ELFCLASS32 == 1
ELFCLASS64 == 2
ELFDATA2LSB == 1
ELFDATA2MSB == 2
SHN_XINDEX == 65535
SHT_RELA == 4
SHT_HASH == 5
SHT_REL == 9
SHT_DYNSYM == 11
SHT_GNU_HASH == 1879048182
SHT_PROGBITS == 1
SHT_STRTAB == 3
SHT_INIT_ARRAY == 14
PT_LOAD == 1
PT_DYNAMIC == 2
STN_UNDEF == 0
DT_NULL == 0
DT_NEEDED == 1
DT_STRTAB == 5
DT_SYMTAB == 6
DT_STRSZ == 10
DT_SYMENT == 11
DT_SONAME == 14

\* sizeof of the on-disk records (namespace types)
SizeofElf32_Phdr == 32
SizeofElf64_Phdr == 56
SizeofElf32_Shdr == 40
SizeofElf64_Shdr == 64
SizeofElf32_Sym == 16
SizeofElf64_Sym == 24
SizeofElf32_Dyn == 8
SizeofElf64_Dyn == 16
SizeofElf32_Rel == 8
SizeofElf64_Rel == 16
SizeofElf32_Rela == 12
SizeofElf64_Rela == 24

\* sizeof(std::uint64_t) * 8 in lookup_gnu_symbol
bloom_word_size == 64

\* the base-address sentinel 0xFFFFFFFFFFFFFFFF as a uint64 representative
AllOnes == -1

\* dynamic_segment_string_table.data(): the address of the string buffer
StrTabBase == 1000

(***************************************************************************)
(* Sequences, bytes and integers                                           *)
(***************************************************************************)
At(s, i) == s[i + 1]

InRange(s, i) == i >= 0 /\ i < Len(s)

Min(a, b) == IF a <= b THEN a ELSE b

RECURSIVE Reverse(_)
Reverse(s) == IF s = <<>> THEN <<>> ELSE Append(Reverse(Tail(s)), Head(s))

\* s cut or padded with d to exactly n elements (vector::resize on an empty vector
\* followed by a read that delivered s)
Resized(s, n, d) == [i \in 1..n |-> IF i <= Len(s) THEN s[i] ELSE d]

\* unsigned order of two uint64 representatives
U64Less(a, b) ==
  IF (a >= 0) = (b >= 0) THEN a < b ELSE a >= 0

U64Min(a, b) == IF U64Less(b, a) THEN b ELSE a

\* bitwise operations on naturals
RECURSIVE BitAnd(_, _)
BitAnd(a, b) ==
  IF a = 0 \/ b = 0 THEN 0
  ELSE (a % 2) * (b % 2) + 2 * BitAnd(a \div 2, b \div 2)

RECURSIVE BitXor(_, _)
BitXor(a, b) ==
  IF a = 0 THEN b
  ELSE IF b = 0 THEN a
  ELSE ((a + b) % 2) + 2 * BitXor(a \div 2, b \div 2)

\* little-endian bytes of v in n bytes, and back
RECURSIVE LE(_, _)
LE(v, n) == IF n = 0 THEN <<>> ELSE <<v % 256>> \o LE(v \div 256, n - 1)

RECURSIVE FromLE(_)
FromLE(b) == IF b = <<>> THEN 0 ELSE Head(b) + 256 * FromLE(Tail(b))

Bytes(mem, off, n) == SubSeq(mem, off + 1, off + n)

(***************************************************************************)
(* uint32 values as <<high half, low half>>                                *)
(***************************************************************************)
Half == 2^16

U32(hi, lo) == <<hi, lo>>

U32Mod(h, n) == ((h[1] % n) * (Half % n) + (h[2] % n)) % n

U32Div64(h) == h[1] * 1024 + (h[2] \div 64)

\* h >> s for 0 <= s <= 31
U32Shr(h, s) ==
  IF s >= 16 THEN U32(0, h[1] \div (2^(s - 16)))
  ELSE U32(h[1] \div (2^s),
           ((h[1] % (2^s)) * (2^(16 - s))) + (h[2] \div (2^s)))

\* h & ~1 and h & 1
ClearLow(h) == U32(h[1], h[2] - (h[2] % 2))

LowBit(h) == h[2] % 2


(***************************************************************************)
(* C strings and the two hash functions                                    *)
(***************************************************************************)
\* what a read through a pointer that addresses no NUL-terminated string gives
Dangling == <<-1>>

HasNul(tab, off) == \E k \in (off + 1)..Len(tab) : tab[k] = 0

\* the NUL-terminated string that starts at offset off of the byte table tab
CStr(tab, off) ==
  IF off < 0 \/ off >= Len(tab) \/ ~HasNul(tab, off) THEN Dangling
  ELSE LET k == CHOOSE j \in (off + 1)..Len(tab) :
                  /\ tab[j] = 0
                  /\ \A i \in (off + 1)..(j - 1) : tab[i] # 0
       IN SubSeq(tab, off + 1, k - 1)

\* one round of elf_hash on h < 2^28: h = (h << 4) + c; g = h & 0xf0000000;
\* if (g) h ^= g >> 24; h &= ~g. The low 28 bits and the top nibble of the
\* 32-bit sum are computed apart (the sum itself can reach 2^32).
elf_hash_step(h, c) ==
  LET t   == (h % (2^24)) * 16 + c
      nib == ((h \div (2^24)) + (t \div (2^28))) % 16
  IN BitXor(t % (2^28), nib * 16)

RECURSIVE elf_hash_from(_, _)
elf_hash_from(h, name) ==
  IF name = <<>> THEN h
  ELSE elf_hash_from(elf_hash_step(h, Head(name)), Tail(name))

elf_hash(name) == elf_hash_from(0, name)

\* one round of gnu_hash as it would be if the product of the low half did
\* not carry into the high half
gnu_hash_step_without_carry(h, c) ==
  LET t == h[2] * 33 + c
  IN U32((h[1] * 33) % Half, t % Half)

\* one round of gnu_hash, h = h * 33 + c, on the low 32 bits
gnu_hash_step(h, c) ==
  LET t == h[2] * 33 + c
  IN U32((h[1] * 33 + (t \div Half)) % Half, t % Half)

RECURSIVE gnu_hash_from(_, _)
gnu_hash_from(h, s) ==
  IF s = <<>> THEN h
  ELSE gnu_hash_from(gnu_hash_step(h, Head(s)), Tail(s))

\* 5381 = 0 * 2^16 + 5381
gnu_hash(s) == gnu_hash_from(U32(0, 5381), s)

\* gnu_hash with its accumulator, uint_fast32_t h, as the bytes of an unsigned
\* integer of a given width, least significant byte first. h * 33 + c: each
\* byte times 33 plus the carry of the byte below, the carry out of the last
\* byte is lost.
RECURSIVE times_33_plus(_, _)
times_33_plus(h, c) ==
  IF h = <<>> THEN <<>>
  ELSE LET t == Head(h) * 33 + c
       IN <<t % 256>> \o times_33_plus(Tail(h), t \div 256)

RECURSIVE gnu_hash_loop(_, _)
gnu_hash_loop(h, s) ==
  IF s = <<>> THEN h ELSE gnu_hash_loop(times_33_plus(h, Head(s)), Tail(s))

\* the accumulator at the return statement; 5381 = 21 * 256 + 5
gnu_hash_accumulator(s, width) ==
  gnu_hash_loop([i \in 1..width |-> IF i = 1 THEN 5 ELSE IF i = 2 THEN 21 ELSE 0],
                s)

\* return h & 0xffffffff: the low four bytes, as a uint32
gnu_hash_fast(s, width) ==
  LET h == gnu_hash_accumulator(s, width)
  IN U32(h[4] * 256 + h[3], h[2] * 256 + h[1])

(***************************************************************************)
(* The elf_file object: its members after their default initialisers       *)
(***************************************************************************)
ZeroHeader ==
  [ei_magic |-> <<0, 0, 0, 0>>, ei_class |-> 0, ei_data |-> 0,
   e_phoff |-> 0, e_shoff |-> 0, e_phentsize |-> 0, e_phnum |-> 0,
   e_shentsize |-> 0, e_shnum |-> 0, e_shstrndx |-> 0]

NewElf ==
  [is_open |-> FALSE,
   last_error |-> "",
   header |-> ZeroHeader,
   program_headers |-> <<>>,
   section_headers |-> <<>>,
   section_header_string_table |-> <<>>,
   dynamic_entries |-> <<>>,
   dynamic_segment_string_table |-> <<>>,
   so_name |-> 0,
   needed_libraries |-> <<>>,
   dynamic_symbols |-> <<>>,
   init_functions |-> <<>>,
   fini_functions |-> <<>>,
   base_address |-> 0,
   hash_buckets |-> <<>>,
   hash_chains |-> <<>>,
   gnu_hash_buckets |-> <<>>,
   gnu_hash_values |-> <<>>,
   gnu_hash_bloom_shift |-> 0,
   gnu_hash_omitted_symbols_count |-> 0,
   gnu_hash_bloom_words |-> <<>>,
   plt_rel_entries |-> <<>>,
   dyn_rel_entries |-> <<>>,
   plt_rela_entries |-> <<>>,
   dyn_rela_entries |-> <<>>]

error(e) == e.last_error # ""

error_message(e) == e.last_error

is_little_endian(e) == e.header.ei_data = ELFDATA2LSB

is_big_endian(e) == e.header.ei_data = ELFDATA2MSB

get_base_address(e) == e.base_address

is_32_bit(e) == e.header.ei_class = ELFCLASS32

is_64_bit(e) == e.header.ei_class = ELFCLASS64

\* the string a const char * of the object addresses
Deref(e, ptr) == CStr(e.dynamic_segment_string_table, ptr - StrTabBase)

(***************************************************************************)
(* Symbol lookup. A lookup's outcome is a record: res is "found" (idx the  *)
(* symbol's index), "notfound" (cend()), "throw" (std::out_of_range left   *)
(* vector::at), "ub" (an iterator moved or read outside its vector, a      *)
(* dangling name compared, a shift by 32 or more) or "hang" (the loop came *)
(* back to an index it had left: it never ends). The record also lists     *)
(* what the lookup read: the bloom word, the bucket, the secondary hash    *)
(* values and the symbols whose names it compared, in order.               *)
(***************************************************************************)
Outcome(res, idx, bloom, bucket, values, names) ==
  [res |-> res, idx |-> idx, bloom |-> bloom, bucket |-> bucket,
   values |-> values, names |-> names]

RECURSIVE elf_walk(_, _, _, _, _)
elf_walk(e, name, index, seen, names) ==
  IF index = STN_UNDEF THEN Outcome("notfound", 0, FALSE, TRUE, <<>>, names)
  ELSE IF index \in seen THEN Outcome("hang", 0, FALSE, TRUE, <<>>, names)
  ELSE IF ~InRange(e.dynamic_symbols, index)
    THEN Outcome("ub", 0, FALSE, TRUE, <<>>, names)
  ELSE IF Deref(e, At(e.dynamic_symbols, index).st_name_str) = Dangling
    THEN Outcome("ub", 0, FALSE, TRUE, <<>>, Append(names, index))
  ELSE IF Deref(e, At(e.dynamic_symbols, index).st_name_str) = name
    THEN Outcome("found", index, FALSE, TRUE, <<>>, Append(names, index))
  ELSE IF ~InRange(e.hash_chains, index)
    THEN Outcome("throw", 0, FALSE, TRUE, <<>>, Append(names, index))
  ELSE elf_walk(e, name, At(e.hash_chains, index), seen \cup {index},
                Append(names, index))

\* lookup_elf_symbol as it would be if the walk always started at bucket 0
lookup_elf_symbol_from_bucket_0(e, name) ==
  IF e.hash_buckets = <<>> THEN Outcome("notfound", 0, FALSE, FALSE, <<>>, <<>>)
  ELSE elf_walk(e, name, At(e.hash_buckets, 0), {}, <<>>)

lookup_elf_symbol(e, name) ==
  IF e.hash_buckets = <<>> THEN Outcome("notfound", 0, FALSE, FALSE, <<>>, <<>>)
  ELSE elf_walk(e, name,
                At(e.hash_buckets, elf_hash(name) % Len(e.hash_buckets)),
                {}, <<>>)

\* the for loop of lookup_gnu_symbol; hash1 has its low bit cleared, sym and val
\* are the positions of current_symbol and current_value
RECURSIVE gnu_walk(_, _, _, _, _, _, _)
gnu_walk(e, name, hash1, sym, val, values, names) ==
  IF sym = Len(e.dynamic_symbols) \/ val = Len(e.gnu_hash_values)
    THEN Outcome("notfound", 0, TRUE, TRUE, values, names)
  ELSE LET hash2 == At(e.gnu_hash_values, val)
           read  == Append(values, val)
       IN IF hash1 # ClearLow(hash2)
            THEN gnu_walk(e, name, hash1, sym + 1, val + 1, read, names)
          ELSE IF Deref(e, At(e.dynamic_symbols, sym).st_name_str) = Dangling
            THEN Outcome("ub", 0, TRUE, TRUE, read, Append(names, sym))
          ELSE IF Deref(e, At(e.dynamic_symbols, sym).st_name_str) = name
            THEN Outcome("found", sym, TRUE, TRUE, read, Append(names, sym))
          ELSE IF LowBit(hash2) = 1
            THEN Outcome("notfound", 0, TRUE, TRUE, read, Append(names, sym))
          ELSE gnu_walk(e, name, hash1, sym + 1, val + 1, read,
                        Append(names, sym))

\* the bitmask as it would be if only the first bit were probed
gnu_bitmask_of_one_bit(e, hash1) == {U32Mod(hash1, bloom_word_size)}

\* the two bits probed in the bloom word, and the word's index
gnu_bitmask(e, hash1) ==
  {U32Mod(hash1, bloom_word_size),
   U32Mod(U32Shr(hash1, e.gnu_hash_bloom_shift), bloom_word_size)}

gnu_bloom_index(e, hash1) ==
  BitAnd(U32Div64(hash1), Len(e.gnu_hash_bloom_words) - 1)

lookup_gnu_symbol(e, name) ==
  LET hash1     == gnu_hash(name)
      start_idx == At(e.gnu_hash_buckets, U32Mod(hash1, Len(e.gnu_hash_buckets)))
      first_val == start_idx - e.gnu_hash_omitted_symbols_count
  IN IF e.gnu_hash_buckets = <<>>
       THEN Outcome("notfound", 0, FALSE, FALSE, <<>>, <<>>)
     ELSE IF e.gnu_hash_bloom_shift >= 32
       THEN Outcome("ub", 0, FALSE, FALSE, <<>>, <<>>)
     ELSE IF e.gnu_hash_bloom_words = <<>>
       THEN Outcome("throw", 0, FALSE, FALSE, <<>>, <<>>)
     ELSE IF ~(gnu_bitmask(e, hash1) \subseteq
                 At(e.gnu_hash_bloom_words, gnu_bloom_index(e, hash1)))
       THEN Outcome("notfound", 0, TRUE, FALSE, <<>>, <<>>)
     ELSE IF start_idx = STN_UNDEF
       THEN Outcome("notfound", 0, TRUE, TRUE, <<>>, <<>>)
     ELSE IF start_idx > Len(e.dynamic_symbols)
               \/ first_val < 0 \/ first_val > Len(e.gnu_hash_values)
       THEN Outcome("ub", 0, TRUE, TRUE, <<>>, <<>>)
     ELSE gnu_walk(e, name, ClearLow(hash1), start_idx, first_val, <<>>, <<>>)

\* the outcome of a lookup that was not made
NoOutcome == Outcome("none", 0, FALSE, FALSE, <<>>, <<>>)

\* get_symbol as it would be if the legacy table were asked first
get_symbol_legacy_first(e, name) ==
  LET symbol == lookup_elf_symbol(e, name)
      second == IF symbol.res = "notfound" THEN lookup_gnu_symbol(e, name)
                ELSE NoOutcome
      last   == IF symbol.res = "notfound" THEN second ELSE symbol
  IN [res |-> last.res, idx |-> last.idx, gnu |-> second, legacy |-> symbol]

\* get_symbol: the GNU table first, the legacy table when that returns cend().
\* An exception or undefined behaviour in the first lookup ends the call. The
\* result also keeps the outcome of each lookup made.
get_symbol(e, name) ==
  LET symbol == lookup_gnu_symbol(e, name)
      second == IF symbol.res = "notfound" THEN lookup_elf_symbol(e, name)
                ELSE NoOutcome
      last   == IF symbol.res = "notfound" THEN second ELSE symbol
  IN [res |-> last.res, idx |-> last.idx, gnu |-> symbol, legacy |-> second]

(***************************************************************************)
(* The file. ident and ehdr are the identification block and the rest of   *)
(* the ELF header (present: the file is long enough to hold them); at maps *)
(* a file offset to the region that starts there, [kind, recs]. The        *)
(* section-name table is a region of strings and sh_name counts strings.   *)
(***************************************************************************)
NoRegion == [kind |-> "none", recs |-> <<>>]

Region(f, off) == IF off \in DOMAIN f.at THEN f.at[off] ELSE NoRegion

\* seekg(off) and read of n records of the kind: got is what the stream
\* delivered, ok is gcount() == the size asked for
ReadRecs(f, off, kind, n) ==
  LET r     == Region(f, off)
      avail == IF r.kind = kind THEN r.recs ELSE <<>>
  IN [ok |-> Len(avail) >= n, got |-> SubSeq(avail, 1, Min(n, Len(avail)))]

\* the result of a bool member function: the object after it, what it
\* returned, and whether it ran into undefined behaviour or threw
Done(e, ok) == [e |-> e, ok |-> ok, ub |-> FALSE, exc |-> FALSE]

Fail(e, msg) == Done([e EXCEPT !.last_error = msg], FALSE)

Undefined(e) == [e |-> e, ok |-> FALSE, ub |-> TRUE, exc |-> FALSE]

\* an exception (std::length_error) left the member function
Thrown(e) == [e |-> e, ok |-> FALSE, ub |-> FALSE, exc |-> TRUE]

NullStr == "(null)"

DanglingStr == "(dangling)"

ZeroPhdr ==
  [p_type |-> 0, p_flags |-> 0, p_offset |-> 0, p_vaddr |-> 0, p_paddr |-> 0,
   p_filesz |-> 0, p_memsz |-> 0, p_align |-> 0]

ZeroShdr ==
  [sh_name |-> 0, sh_type |-> 0, sh_flags |-> 0, sh_addr |-> 0,
   sh_offset |-> 0, sh_size |-> 0, sh_link |-> 0, sh_info |-> 0,
   sh_addralign |-> 0, sh_entsize |-> 0, sh_name_str |-> NullStr]

open_file(f, e) ==
  IF ~f.exists THEN Fail(e, "File does not exist")
  ELSE IF ~f.readable THEN Fail(e, "Failed to open library file")
  ELSE Done([e EXCEPT !.is_open = TRUE], TRUE)

\* the fields of the header that follow e_ident, copied from the record read
HeaderFields(h, real) ==
  [h EXCEPT !.e_phoff = real.e_phoff, !.e_shoff = real.e_shoff,
            !.e_phentsize = real.e_phentsize, !.e_phnum = real.e_phnum,
            !.e_shentsize = real.e_shentsize, !.e_shnum = real.e_shnum,
            !.e_shstrndx = real.e_shstrndx]

read_elf_header(f, e) ==
  IF ~e.is_open THEN Fail(e, "Binary file is not open")
  ELSE IF ~f.ident.present THEN Fail(e, "Failed to read ELF identification")
  ELSE LET e1 == [e EXCEPT !.header.ei_magic = f.ident.ei_magic,
                           !.header.ei_class = f.ident.ei_class,
                           !.header.ei_data = f.ident.ei_data]
       IN IF is_64_bit(e1) \/ is_32_bit(e1)
            THEN IF ~f.ehdr.present THEN Fail(e1, "Failed to read ELF header")
                 ELSE Done([e1 EXCEPT !.header = HeaderFields(@, f.ehdr)], TRUE)
          ELSE Fail(e1, "Invalid ELF class")

\* field-by-field copy of an Elf32_Phdr
WidenPhdr(real) ==
  [p_type |-> real.p_type, p_flags |-> real.p_flags,
   p_offset |-> real.p_offset, p_vaddr |-> real.p_vaddr,
   p_paddr |-> real.p_paddr, p_filesz |-> real.p_filesz,
   p_memsz |-> real.p_memsz, p_align |-> real.p_align]

\* the base address as it would be if every segment counted, loadable or not
RECURSIVE BaseOf_of_every_segment(_, _)
BaseOf_of_every_segment(phdrs, base) ==
  IF phdrs = <<>> THEN base
  ELSE BaseOf_of_every_segment(Tail(phdrs), U64Min(base, Head(phdrs).p_vaddr))

RECURSIVE BaseOf(_, _)
BaseOf(phdrs, base) ==
  IF phdrs = <<>> THEN base
  ELSE BaseOf(Tail(phdrs),
              IF Head(phdrs).p_type = PT_LOAD
                THEN U64Min(base, Head(phdrs).p_vaddr) ELSE base)

\* read_program_headers as it would be if the declared size were checked only
\* when the table has entries
read_program_headers_of_nonempty_table(f, e) ==
  IF ~e.is_open THEN Fail(e, "Binary file is not open")
  ELSE
    LET n    == e.header.e_phnum
        rd   == ReadRecs(f, e.header.e_phoff, "phdr", n)
        e0   == [e EXCEPT !.program_headers = Resized(<<>>, n, ZeroPhdr)]
        want == IF is_64_bit(e) THEN SizeofElf64_Phdr ELSE SizeofElf32_Phdr
    IN IF n > 0 /\ e.header.e_phentsize # want
         THEN Fail(e0, "Invalid program header size")
       ELSE IF ~rd.ok
         THEN Fail(IF is_64_bit(e)
                     THEN [e EXCEPT !.program_headers =
                                      Resized(rd.got, n, ZeroPhdr)]
                     ELSE e0,
                   "Failed to read program headers")
       ELSE LET hs == IF is_64_bit(e) THEN rd.got
                      ELSE [i \in 1..n |-> WidenPhdr(rd.got[i])]
            IN Done([e EXCEPT !.program_headers = hs,
                              !.base_address = BaseOf(hs, AllOnes)], TRUE)

read_program_headers(f, e) ==
  IF ~e.is_open THEN Fail(e, "Binary file is not open")
  ELSE
    LET n    == e.header.e_phnum
        rd   == ReadRecs(f, e.header.e_phoff, "phdr", n)
        e0   == [e EXCEPT !.program_headers = Resized(<<>>, n, ZeroPhdr)]
        want == IF is_64_bit(e) THEN SizeofElf64_Phdr ELSE SizeofElf32_Phdr
    IN IF e.header.e_phentsize # want
         THEN Fail(e0, "Invalid program header size")
       ELSE IF ~rd.ok
         THEN Fail(IF is_64_bit(e)
                     THEN [e EXCEPT !.program_headers =
                                      Resized(rd.got, n, ZeroPhdr)]
                     ELSE e0,
                   "Failed to read program headers")
       ELSE LET hs == IF is_64_bit(e) THEN rd.got
                      ELSE [i \in 1..n |-> WidenPhdr(rd.got[i])]
            IN Done([e EXCEPT !.program_headers = hs,
                              !.base_address = BaseOf(hs, AllOnes)], TRUE)

\* field-by-field copy of an Elf32_Shdr; the resolved name is not set here
WidenShdr(real) ==
  [sh_name |-> real.sh_name, sh_type |-> real.sh_type,
   sh_flags |-> real.sh_flags, sh_addr |-> real.sh_addr,
   sh_offset |-> real.sh_offset, sh_size |-> real.sh_size,
   sh_link |-> real.sh_link, sh_info |-> real.sh_info,
   sh_addralign |-> real.sh_addralign, sh_entsize |-> real.sh_entsize,
   sh_name_str |-> NullStr]

\* section_header_string_table.data() + sh_name
SectionName(table, sh_name) ==
  IF InRange(table, sh_name) THEN At(table, sh_name) ELSE DanglingStr

\* the second half of read_section_headers: the section-name table
read_section_names(f, e) ==
  LET idx == IF e.header.e_shstrndx = SHN_XINDEX
               THEN At(e.section_headers, 0).sh_link
               ELSE e.header.e_shstrndx
      hdr == At(e.section_headers, idx)
      rd  == ReadRecs(f, hdr.sh_offset, "shstr", hdr.sh_size)
  IN IF e.header.e_shstrndx = SHN_XINDEX /\ e.section_headers = <<>>
       THEN Undefined(e)
     ELSE IF ~InRange(e.section_headers, idx) THEN Undefined(e)
     ELSE IF ~rd.ok
       THEN Fail([e EXCEPT !.section_header_string_table =
                             Resized(rd.got, hdr.sh_size, "")],
                 "Failed to read section header string table")
     ELSE Done([e EXCEPT
                  !.section_header_string_table = rd.got,
                  !.section_headers =
                     [i \in 1..Len(e.section_headers) |->
                        [e.section_headers[i] EXCEPT !.sh_name_str =
                           SectionName(rd.got, e.section_headers[i].sh_name)]]],
               TRUE)

read_section_headers(f, e) ==
  IF ~e.is_open THEN Fail(e, "Binary file is not open")
  ELSE
    LET n    == e.header.e_shnum
        rd   == ReadRecs(f, e.header.e_shoff, "shdr", n)
        e0   == [e EXCEPT !.section_headers = Resized(<<>>, n, ZeroShdr)]
        want == IF is_64_bit(e) THEN SizeofElf64_Shdr ELSE SizeofElf32_Shdr
    IN IF e.header.e_shentsize # want
         THEN Fail(e0, "Invalid section header size")
       ELSE IF ~rd.ok
         THEN IF is_64_bit(e)
                THEN Fail([e EXCEPT !.section_headers =
                             Resized([i \in 1..Len(rd.got) |->
                                        WidenShdr(rd.got[i])], n, ZeroShdr)],
                          "Failed to read section header")
                ELSE Fail(e0, "Failed to read section headers")
       ELSE read_section_names(f,
              [e EXCEPT !.section_headers =
                          [i \in 1..n |-> WidenShdr(rd.got[i])]])

(***************************************************************************)
(* Lifecycle arrays and the constructor                                    *)
(***************************************************************************)
\* std::find_if over the sections with strcmp(hdr.sh_name_str, name) == 0: the
\* C++ index of the first match, Len(secs) for cend(), -1 when strcmp is given
\* a null or dangling pointer before a match
RECURSIVE FindNameFrom(_, _, _)
FindNameFrom(secs, name, i) ==
  IF i >= Len(secs) THEN Len(secs)
  ELSE IF At(secs, i).sh_name_str \in {NullStr, DanglingStr} THEN -1
  ELSE IF At(secs, i).sh_name_str = name THEN i
  ELSE FindNameFrom(secs, name, i + 1)

FindName(secs, name) == FindNameFrom(secs, name, 0)

\* one array section appended to the list fns: the addresses of the section
\* hdr, in file order or reversed
ReadAddrArray(f, e, hdr, fns, reversed, sizemsg, readmsg, member) ==
  LET entry == IF is_64_bit(e) THEN 8 ELSE 4
      count == hdr.sh_size \div entry
      rd    == ReadRecs(f, hdr.sh_offset, "addr", count)
      set(v) == IF member = "init" THEN [e EXCEPT !.init_functions = v]
                ELSE [e EXCEPT !.fini_functions = v]
  IN IF hdr.sh_size % entry # 0 THEN Fail(e, sizemsg)
     ELSE IF ~rd.ok
       THEN Fail(IF is_64_bit(e) THEN set(fns \o Resized(rd.got, count, 0))
                 ELSE e, readmsg)
     ELSE Done(set(fns \o (IF reversed THEN Reverse(rd.got) ELSE rd.got)), TRUE)

read_init_functions(f, e) ==
  LET secs    == e.section_headers
      preinit == FindName(secs, ".preinit_array")
      r1 == IF preinit = Len(secs) THEN Done(e, TRUE)
            ELSE ReadAddrArray(f, e, At(secs, preinit), <<>>, FALSE,
                               "Invalid preinit array size",
                               "Failed to read preinit array", "init")
      init == FindName(secs, ".init")
      e2 == IF init = Len(secs) THEN r1.e
            ELSE [r1.e EXCEPT !.init_functions =
                                Append(@, At(secs, init).sh_addr)]
      arr == FindName(secs, ".init_array")
  IN IF ~e.is_open THEN Fail(e, "Binary file is not open")
     ELSE IF preinit = -1 THEN Undefined(e)
     ELSE IF ~r1.ok THEN r1
     ELSE IF init = -1 \/ arr = -1 THEN Undefined(e)
     ELSE IF arr = Len(secs) THEN Done(e2, TRUE)
     ELSE ReadAddrArray(f, e2, At(secs, arr), e2.init_functions, FALSE,
                        "Invalid preinit array size",
                        "Failed to read preinit array", "init")

\* read_term_functions as it would be if the finalizer array kept its file order
read_term_functions_in_file_order(f, e) ==
  LET secs == e.section_headers
      arr  == FindName(secs, ".fini_array")
      r1 == IF arr = Len(secs) THEN Done(e, TRUE)
            ELSE ReadAddrArray(f, e, At(secs, arr), <<>>, FALSE,
                               "Invalid fini array size",
                               "Failed to read fini array", "fini")
      fini == FindName(secs, ".fini")
  IN IF arr = -1 THEN Undefined(e)
     ELSE IF ~r1.ok THEN r1
     ELSE IF fini = -1 THEN Undefined(e)
     ELSE IF fini = Len(secs) THEN r1
     ELSE Done([r1.e EXCEPT !.fini_functions =
                              Append(@, At(secs, fini).sh_addr)], TRUE)

read_term_functions(f, e) ==
  LET secs == e.section_headers
      arr  == FindName(secs, ".fini_array")
      r1 == IF arr = Len(secs) THEN Done(e, TRUE)
            ELSE ReadAddrArray(f, e, At(secs, arr), <<>>, TRUE,
                               "Invalid fini array size",
                               "Failed to read fini array", "fini")
      fini == FindName(secs, ".fini")
  IN IF arr = -1 THEN Undefined(e)
     ELSE IF ~r1.ok THEN r1
     ELSE IF fini = -1 THEN Undefined(e)
     ELSE IF fini = Len(secs) THEN r1
     ELSE Done([r1.e EXCEPT !.fini_functions =
                              Append(@, At(secs, fini).sh_addr)], TRUE)

\* a && chain: the next member function runs only when this one returned true
AndThen(r, next(_)) == IF r.ok THEN next(r.e) ELSE r

\* elf_file::elf_file
construct(f) ==
  LET r0 == open_file(f, NewElf)
      hdr(e) == read_elf_header(f, e)
      ph(e)  == read_program_headers(f, e)
      sh(e)  == read_section_headers(f, e)
      ini(e) == read_init_functions(f, e)
      fin(e) == read_term_functions(f, e)
  IN AndThen(AndThen(AndThen(AndThen(AndThen(r0, hdr), ph), sh), ini), fin)

(***************************************************************************)
(* parse_dynamic_segment: dynamic entries, string table, symbols           *)
(***************************************************************************)
ZeroDyn == [d_tag |-> 0, d_val |-> 0]

ZeroSym ==
  [st_name |-> 0, st_value |-> 0, st_size |-> 0, st_info |-> 0,
   st_other |-> 0, st_shndx |-> 0, st_name_str |-> 0]

\* vector::resize(n) of old, then the records got written over its start
Overlay(old, got, n, d) ==
  [i \in 1..n |-> IF i <= Len(got) THEN got[i]
                  ELSE IF i <= Len(old) THEN old[i] ELSE d]

\* field-by-field copy of an Elf32_Dyn
WidenDyn(real) == [d_tag |-> real.d_tag, d_val |-> real.d_val]

\* the index of the first program header of type PT_DYNAMIC, Len for end()
RECURSIVE FindDynamicFrom(_, _)
FindDynamicFrom(phdrs, i) ==
  IF i >= Len(phdrs) THEN Len(phdrs)
  ELSE IF At(phdrs, i).p_type = PT_DYNAMIC THEN i
  ELSE FindDynamicFrom(phdrs, i + 1)

RECURSIVE FindTypeFrom(_, _, _)
FindTypeFrom(secs, type, i) ==
  IF i >= Len(secs) THEN Len(secs)
  ELSE IF At(secs, i).sh_type = type THEN i
  ELSE FindTypeFrom(secs, type, i + 1)

\* the bytes of an Elf64_Sym and of an Elf32_Sym holding the values v
Elf64_Sym(v) ==
  LE(v.st_name, 4) \o LE(v.st_info, 1) \o LE(v.st_other, 1)
    \o LE(v.st_shndx, 2) \o LE(v.st_value, 8) \o LE(v.st_size, 8)

Elf32_Sym(v) ==
  LE(v.st_name, 4) \o LE(v.st_value, 4) \o LE(v.st_size, 4)
    \o LE(v.st_info, 1) \o LE(v.st_other, 1) \o LE(v.st_shndx, 2)

\* the bytes of an elf_symbol up to st_name_str (the padding holds zeros) and
\* the members read back from them
SymbolMemory(sym) ==
  LE(sym.st_name, 4) \o LE(0, 4) \o LE(sym.st_value, 8) \o LE(sym.st_size, 8)
    \o LE(sym.st_info, 1) \o LE(sym.st_other, 1) \o LE(sym.st_shndx, 2)
    \o LE(0, 4)

SymbolOf(mem, name_str) ==
  [st_name |-> FromLE(Bytes(mem, 0, 4)),
   st_value |-> FromLE(Bytes(mem, 8, 8)),
   st_size |-> FromLE(Bytes(mem, 16, 8)),
   st_info |-> FromLE(Bytes(mem, 24, 1)),
   st_other |-> FromLE(Bytes(mem, 25, 1)),
   st_shndx |-> FromLE(Bytes(mem, 26, 2)),
   st_name_str |-> name_str]

\* binary_file.read(&dynamic_symbols[i], sizeof(Elf64_Sym)): the record's bytes
\* land on the first bytes of the elf_symbol old; then st_name_str is set
ReadSym64(raw, old) ==
  LET m   == SymbolMemory(old)
      mem == raw \o SubSeq(m, Len(raw) + 1, Len(m))
      sym == SymbolOf(mem, old.st_name_str)
  IN [sym EXCEPT !.st_name_str = StrTabBase + sym.st_name]

\* the copy of an Elf32_Sym, member by member
ReadSym32(raw) ==
  LET st_name == FromLE(Bytes(raw, 0, 4))
  IN [st_name |-> st_name,
      st_info |-> FromLE(Bytes(raw, 12, 1)),
      st_other |-> FromLE(Bytes(raw, 13, 1)),
      st_shndx |-> FromLE(Bytes(raw, 14, 2)),
      st_value |-> FromLE(Bytes(raw, 4, 4)),
      st_size |-> FromLE(Bytes(raw, 8, 4)),
      st_name_str |-> StrTabBase + st_name]

\* the loop over the dynamic entries as it would be without the DT_NEEDED case
RECURSIVE ScanDynamic_without_needed(_, _, _)
ScanDynamic_without_needed(entries, base, x) ==
  IF entries = <<>> THEN x
  ELSE LET d == Head(entries)
           y == CASE d.d_tag = DT_STRTAB -> [x EXCEPT !.strtab = d.d_val - base]
                  [] d.d_tag = DT_STRSZ  -> [x EXCEPT !.strsz = d.d_val]
                  [] d.d_tag = DT_SYMTAB -> [x EXCEPT !.symtab = d.d_val - base]
                  [] d.d_tag = DT_SYMENT -> [x EXCEPT !.syment = d.d_val]
                  [] d.d_tag = DT_SONAME -> [x EXCEPT !.so_name = d.d_val]
                  [] OTHER -> x
       IN ScanDynamic_without_needed(Tail(entries), base, y)

\* what the loop over the dynamic entries extracts
RECURSIVE ScanDynamic(_, _, _)
ScanDynamic(entries, base, x) ==
  IF entries = <<>> THEN x
  ELSE LET d == Head(entries)
           y == CASE d.d_tag = DT_STRTAB -> [x EXCEPT !.strtab = d.d_val - base]
                  [] d.d_tag = DT_STRSZ  -> [x EXCEPT !.strsz = d.d_val]
                  [] d.d_tag = DT_SYMTAB -> [x EXCEPT !.symtab = d.d_val - base]
                  [] d.d_tag = DT_SYMENT -> [x EXCEPT !.syment = d.d_val]
                  [] d.d_tag = DT_SONAME -> [x EXCEPT !.so_name = d.d_val]
                  [] d.d_tag = DT_NEEDED ->
                       [x EXCEPT !.needed = Append(@, d.d_val)]
                  [] OTHER -> x
       IN ScanDynamic(Tail(entries), base, y)

\* the dynamic entries as they would be read if the reader stopped at the
\* first DT_NULL entry
read_dynamic_entries_until_null(f, e, dyn) ==
  LET size  == IF is_64_bit(e) THEN SizeofElf64_Dyn ELSE SizeofElf32_Dyn
      count == dyn.p_filesz \div size
      rd    == ReadRecs(f, dyn.p_offset, "dyn", count)
      nulls == {i \in 1..Len(rd.got) : rd.got[i].d_tag = DT_NULL}
      upto  == IF nulls = {} THEN Len(rd.got)
               ELSE CHOOSE i \in nulls : \A j \in nulls : i <= j
      wide  == [i \in 1..upto |-> WidenDyn(rd.got[i])]
  IN IF ~(is_64_bit(e) \/ is_32_bit(e)) THEN Done(e, FALSE)
     ELSE IF dyn.p_filesz % size # 0 THEN Fail(e, "Invalid dynamic segment size")
     ELSE IF ~rd.ok
       THEN Fail([e EXCEPT !.dynamic_entries =
                    Overlay(@, IF is_64_bit(e) THEN wide ELSE <<>>, count,
                            ZeroDyn)],
                 "Failed to read dynamic segment")
     ELSE Done([e EXCEPT !.dynamic_entries = wide], TRUE)

\* the dynamic entries (the first part of parse_dynamic_segment, after the
\* dynamic program header dyn was found)
read_dynamic_entries(f, e, dyn) ==
  LET size  == IF is_64_bit(e) THEN SizeofElf64_Dyn ELSE SizeofElf32_Dyn
      count == dyn.p_filesz \div size
      rd    == ReadRecs(f, dyn.p_offset, "dyn", count)
      wide  == [i \in 1..Len(rd.got) |-> WidenDyn(rd.got[i])]
  IN IF ~(is_64_bit(e) \/ is_32_bit(e)) THEN Done(e, FALSE)
     ELSE IF dyn.p_filesz % size # 0 THEN Fail(e, "Invalid dynamic segment size")
     ELSE IF ~rd.ok
       THEN Fail([e EXCEPT !.dynamic_entries =
                    Overlay(@, IF is_64_bit(e) THEN wide ELSE <<>>, count,
                            ZeroDyn)],
                 "Failed to read dynamic segment")
     ELSE Done([e EXCEPT !.dynamic_entries = wide], TRUE)

\* the symbol table, cross-checked against the SHT_DYNSYM section
read_dynamic_symbols(f, e, symbol_table_offset, symbol_table_entry_size) ==
  LET secs  == e.section_headers
      at    == FindTypeFrom(secs, SHT_DYNSYM, 0)
      hdr   == At(secs, at)
      count == hdr.sh_size \div symbol_table_entry_size
      rd    == ReadRecs(f, symbol_table_offset, "sym", count)
      old   == Overlay(e.dynamic_symbols, <<>>, count, ZeroSym)
      want  == IF is_64_bit(e) THEN SizeofElf64_Sym ELSE SizeofElf32_Sym
      syms64 == [i \in 1..count |->
                   IF i <= Len(rd.got) THEN ReadSym64(rd.got[i], old[i])
                   ELSE old[i]]
  IN IF at = Len(secs) THEN Fail(e, "Failed to find dynamic symbol table")
     ELSE IF symbol_table_offset # hdr.sh_offset
       THEN Fail(e, "Symbol table offsets don't match")
     ELSE IF symbol_table_entry_size # want
       THEN Fail(e, "Invalid symbol table entry size")
     ELSE IF is_64_bit(e)
       THEN IF rd.ok THEN Done([e EXCEPT !.dynamic_symbols = syms64], TRUE)
            ELSE Fail([e EXCEPT !.dynamic_symbols = syms64],
                      "Failed to read dynamic symbol")
     ELSE IF rd.ok
       THEN Done([e EXCEPT !.dynamic_symbols =
                    [i \in 1..count |-> ReadSym32(rd.got[i])]], TRUE)
     ELSE Fail([e EXCEPT !.dynamic_symbols = old],
               "Failed to read dynamic symbols")

\* the scan of the dynamic entries, the string table and the symbols
read_dynamic_tables(f, e) ==
  LET x == ScanDynamic(e.dynamic_entries, e.base_address,
             [strtab |-> 0, strsz |-> 0, symtab |-> 0, syment |-> 0,
              so_name |-> e.so_name, needed |-> e.needed_libraries])
      e1 == [e EXCEPT !.so_name = x.so_name, !.needed_libraries = x.needed]
      rd == ReadRecs(f, x.strtab, "strtab", x.strsz)
      e2 == [e1 EXCEPT !.dynamic_segment_string_table =
                         Overlay(@, rd.got, x.strsz, 0)]
      e3 == [e2 EXCEPT !.so_name = StrTabBase + @,
                       !.needed_libraries =
                          [i \in 1..Len(@) |-> StrTabBase + @[i]]]
  IN IF x.strtab = 0 \/ x.strsz = 0
       THEN Fail(e1, "Failed to find dynamic string table")
     ELSE IF x.symtab = 0 \/ x.syment = 0
       THEN Fail(e1, "Failed to find symbol table")
     ELSE IF ~rd.ok THEN Fail(e2, "Failed to read dynamic string table")
     ELSE read_dynamic_symbols(f, e3, x.symtab, x.syment)

(***************************************************************************)
(* parse_hash_tables. A hash section's region holds one record: the header *)
(* words and the arrays that follow them in the file.                      *)
(***************************************************************************)
\* the SHT_HASH case for the section hdr
read_hash_table(f, e, hdr) ==
  LET r   == Region(f, hdr.sh_offset)
      t   == r.recs[1]
      e1  == [e EXCEPT !.hash_buckets = Overlay(@, t.buckets, t.nbucket, 0)]
      e2  == [e1 EXCEPT !.hash_chains = Overlay(@, t.chains, t.nchain, 0)]
  IN IF r.kind # "hash" THEN Fail(e, "Failed to read hash table header")
     ELSE IF t.nbucket = 0 \/ t.nchain = 0
       THEN Fail(e, "Invalid hash table header")
     ELSE IF Len(t.buckets) < t.nbucket
       THEN Fail(e1, "Failed to read hash table buckets")
     ELSE IF Len(t.chains) < t.nchain
       THEN Fail(e2, "Failed to read hash table chains")
     ELSE Done(e2, TRUE)

\* a bloom word of a 32-bit file, widened to 64 bits
WidenBloom(word) == {b \in word : b < 32}

\* the SHT_GNU_HASH case for the section hdr
read_gnu_hash_table(f, e, hdr) ==
  LET r   == Region(f, hdr.sh_offset)
      t   == r.recs[1]
      e1  == [e EXCEPT !.gnu_hash_bloom_shift = t.bloom_shift,
                       !.gnu_hash_omitted_symbols_count =
                          t.omitted_symbols_count]
      words == IF is_64_bit(e) THEN t.bloom
               ELSE [i \in 1..Len(t.bloom) |-> WidenBloom(t.bloom[i])]
      e2  == [e1 EXCEPT !.gnu_hash_bloom_words =
                          IF is_64_bit(e) \/ Len(words) >= t.bloom_size
                            THEN Overlay(@, words, t.bloom_size, {})
                            ELSE @]
      e3  == [e2 EXCEPT !.gnu_hash_buckets =
                          Overlay(@, t.buckets, t.nbuckets, 0)]
      hash_values_count ==
             Len(e.dynamic_symbols) - e1.gnu_hash_omitted_symbols_count
      e4  == [e3 EXCEPT !.gnu_hash_values =
                          Overlay(@, t.values, hash_values_count, U32(0, 0))]
  IN IF r.kind # "gnu_hash" THEN Fail(e, "Failed to read gnu hash table header")
     ELSE IF ~(is_64_bit(e) \/ is_32_bit(e)) THEN Fail(e1, "Invalid ELF class")
     ELSE IF Len(t.bloom) < t.bloom_size
       THEN Fail(e2, "Failed to read gnu hash table bloom words")
     ELSE IF Len(t.buckets) < t.nbuckets
       THEN Fail(e3, "Failed to read gnu hash table buckets")
     ELSE IF hash_values_count < 0 THEN Thrown(e3)
     ELSE IF Len(t.values) < hash_values_count
       THEN Fail(e4, "Failed to read gnu hash table values")
     ELSE Done(e4, TRUE)

RECURSIVE hash_tables_from(_, _, _)
hash_tables_from(f, e, i) ==
  IF i >= Len(e.section_headers) THEN Done(e, TRUE)
  ELSE LET hdr == At(e.section_headers, i)
           r   == IF hdr.sh_type = SHT_HASH THEN read_hash_table(f, e, hdr)
                  ELSE IF hdr.sh_type = SHT_GNU_HASH
                    THEN read_gnu_hash_table(f, e, hdr)
                  ELSE Done(e, TRUE)
       IN IF r.ok THEN hash_tables_from(f, r.e, i + 1) ELSE r

parse_hash_tables(f, e) ==
  IF ~e.is_open THEN Fail(e, "Binary file is not open")
  ELSE hash_tables_from(f, e, 0)

(***************************************************************************)
(* parse_relocations. In the file an Elf64 r_info is its two 32-bit words  *)
(* <<low, high>>, an Elf32 r_info a number.                                *)
(***************************************************************************)
\* an Elf64_Rel / Elf64_Rela read in place: r_type and r_sym lie on the two
\* words of r_info
Rel64(real) ==
  [r_offset |-> real.r_offset, r_type |-> real.r_info[1],
   r_sym |-> real.r_info[2]]

Rela64(real) ==
  [r_offset |-> real.r_offset, r_type |-> real.r_info[1],
   r_sym |-> real.r_info[2], r_addend |-> real.r_addend]

\* the copy of an Elf32_Rel as it would be if the type were the low 16 bits
Rel32_of_low_16_bits(real) ==
  [r_offset |-> real.r_offset, r_type |-> real.r_info % 65536,
   r_sym |-> real.r_info \div 65536]

\* the copy of an Elf32_Rel / Elf32_Rela
Rel32(real) ==
  [r_offset |-> real.r_offset, r_type |-> real.r_info % 256,
   r_sym |-> real.r_info \div 256]

Rela32(real) ==
  [r_offset |-> real.r_offset, r_type |-> real.r_info % 256,
   r_sym |-> real.r_info \div 256, r_addend |-> real.r_addend]

ZeroRel == [r_offset |-> 0, r_type |-> 0, r_sym |-> 0]

ZeroRela == [r_offset |-> 0, r_type |-> 0, r_sym |-> 0, r_addend |-> 0]

\* the object with the group named by the section name replaced
SetGroup(e, name, v) ==
  CASE name = ".rel.plt"  -> [e EXCEPT !.plt_rel_entries = v]
    [] name = ".rel.dyn"  -> [e EXCEPT !.dyn_rel_entries = v]
    [] name = ".rela.plt" -> [e EXCEPT !.plt_rela_entries = v]
    [] name = ".rela.dyn" -> [e EXCEPT !.dyn_rela_entries = v]

GetGroup(e, name) ==
  CASE name = ".rel.plt"  -> e.plt_rel_entries
    [] name = ".rel.dyn"  -> e.dyn_rel_entries
    [] name = ".rela.plt" -> e.plt_rela_entries
    [] name = ".rela.dyn" -> e.dyn_rela_entries

\* the names a section of the type may have: the PLT group's, the other group's
RelocationNames(type) ==
  IF type = SHT_REL THEN {".rel.plt", ".rel.dyn"} ELSE {".rela.plt", ".rela.dyn"}

\* the SHT_REL or SHT_RELA case for the section hdr
read_relocation_section(f, e, hdr) ==
  LET rela  == hdr.sh_type = SHT_RELA
      want  == IF is_64_bit(e)
                 THEN (IF rela THEN SizeofElf64_Rela ELSE SizeofElf64_Rel)
                 ELSE (IF rela THEN SizeofElf32_Rela ELSE SizeofElf32_Rel)
      count == hdr.sh_size \div hdr.sh_entsize
      whole == hdr.sh_size % hdr.sh_entsize = 0
      r     == Region(f, hdr.sh_offset)
      avail == IF r.kind = (IF rela THEN "rela" ELSE "rel") THEN r.recs ELSE <<>>
      got   == SubSeq(avail, 1, Min(count, Len(avail)))
      named == hdr.sh_name_str \in RelocationNames(hdr.sh_type)
      zero  == IF rela THEN ZeroRela ELSE ZeroRel
      conv(x) == IF is_64_bit(e) THEN (IF rela THEN Rela64(x) ELSE Rel64(x))
                 ELSE (IF rela THEN Rela32(x) ELSE Rel32(x))
      wide  == [i \in 1..Len(got) |-> conv(got[i])]
      \* the read asks for sh_size bytes of a buffer of count entries
      overrun == ~whole /\ Len(avail) > count
      readok  == whole /\ Len(avail) >= count
      bad(e1) == Fail(e1, "Invalid relocation section name")
      short(e1) == Fail(e1, "Failed to read relocation entries")
  IN IF hdr.sh_entsize # want THEN Fail(e, "Invalid relocation entry size")
     ELSE IF is_64_bit(e)
       THEN IF hdr.sh_name_str \in {NullStr, DanglingStr} THEN Undefined(e)
            ELSE IF ~named THEN bad(e)
            ELSE IF overrun THEN Undefined(e)
            ELSE IF ~readok
              THEN short(SetGroup(e, hdr.sh_name_str,
                           Overlay(GetGroup(e, hdr.sh_name_str), wide, count,
                                   zero)))
            ELSE Done(SetGroup(e, hdr.sh_name_str, wide), TRUE)
     ELSE IF overrun THEN Undefined(e)
     ELSE IF ~readok THEN short(e)
     ELSE IF hdr.sh_name_str \in {NullStr, DanglingStr} THEN Undefined(e)
     ELSE IF ~named THEN bad(e)
     ELSE Done(SetGroup(e, hdr.sh_name_str, wide), TRUE)

RECURSIVE relocations_from(_, _, _)
relocations_from(f, e, i) ==
  IF i >= Len(e.section_headers) THEN Done(e, TRUE)
  ELSE LET hdr == At(e.section_headers, i)
           r   == IF hdr.sh_type \in {SHT_REL, SHT_RELA}
                    THEN read_relocation_section(f, e, hdr)
                  ELSE Done(e, TRUE)
       IN IF r.ok THEN relocations_from(f, r.e, i + 1) ELSE r

parse_relocations(f, e) ==
  IF ~e.is_open THEN Fail(e, "Binary file is not open")
  ELSE relocations_from(f, e, 0)

\* parse_dynamic_segment as it would be if a missing dynamic segment were
\* recorded as an error
parse_dynamic_segment_reporting(f, e) ==
  LET at == FindDynamicFrom(e.program_headers, 0)
      entries(x) == read_dynamic_entries(f, x, At(e.program_headers, at))
      tables(x)  == read_dynamic_tables(f, x)
      hashes(x)  == parse_hash_tables(f, x)
      relocs(x)  == parse_relocations(f, x)
  IN IF ~e.is_open THEN Fail(e, "Binary file is not open")
     ELSE IF at = Len(e.program_headers)
       THEN Fail(e, "Failed to find dynamic segment")
     ELSE AndThen(AndThen(AndThen(entries(e), tables), hashes), relocs)

\* elf_file::parse_dynamic_segment
parse_dynamic_segment(f, e) ==
  LET at == FindDynamicFrom(e.program_headers, 0)
      entries(x) == read_dynamic_entries(f, x, At(e.program_headers, at))
      tables(x)  == read_dynamic_tables(f, x)
      hashes(x)  == parse_hash_tables(f, x)
      relocs(x)  == parse_relocations(f, x)
  IN IF ~e.is_open THEN Fail(e, "Binary file is not open")
     ELSE IF at = Len(e.program_headers) THEN Done(e, FALSE)
     ELSE AndThen(AndThen(AndThen(entries(e), tables), hashes), relocs)

(***************************************************************************)
(* luhns::card_number. A std::string is the sequence of its characters'    *)
(* codes; card is the card_number object: its number, its provider and its *)
(* valid flag. pc is "start" while only the members' initializers ran and  *)
(* "ready" once the constructor's body ran.                                *)
(***************************************************************************)
\* the character '0'
Char0 == 48

\* the members after their initializers: number, provider = invalid,
\* valid = false
NewCard(number) ==
  [number |-> number, provider |-> "invalid", valid |-> FALSE]

\* number.find(c) == 0: the first character of the string is c
FindsFirst(number, c) == number # <<>> /\ number[1] = Char0 + c

\* card_number::add_digits: the sum of the decimal digits of num
RECURSIVE add_digits_from(_, _)
add_digits_from(ret0, num) ==
  LET next == ret0 + (num % 10)
  IN IF (num \div 10) > 0 THEN add_digits_from(next, num \div 10) ELSE next

add_digits(num) == add_digits_from(0, num)

\* the checksum loop from the index i on, as it would be if the characters at
\* even indices were doubled whatever the length
RECURSIVE checksum_doubling_even_indices(_, _, _)
checksum_doubling_even_indices(number, i, checksum) ==
  IF i >= Len(number) THEN checksum
  ELSE checksum_doubling_even_indices(number, i + 1,
         IF 0 = (i % 2)
           THEN checksum + add_digits((At(number, i) - Char0) * 2)
         ELSE checksum + (At(number, i) - Char0))

\* the checksum loop of the constructor from the index i on
RECURSIVE checksum_from(_, _, _)
checksum_from(number, i, checksum) ==
  IF i >= Len(number) THEN checksum
  ELSE checksum_from(number, i + 1,
         IF (Len(number) % 2) = (i % 2)
           THEN checksum + add_digits((At(number, i) - Char0) * 2)
         ELSE checksum + (At(number, i) - Char0))

\* card_number::card_number(number)
card_number(number) ==
  [number   |-> number,
   provider |-> IF FindsFirst(number, 4) THEN "visa"
                ELSE IF FindsFirst(number, 3) THEN "amex"
                ELSE IF FindsFirst(number, 2) \/ FindsFirst(number, 5)
                  THEN "master_card"
                ELSE "invalid",
   valid    |-> (checksum_from(number, 0, 0) % 10) = 0]

\* luhns::provider_str
provider_str(p) ==
  CASE p = "invalid"     -> "invalid"
    [] p = "visa"        -> "visa"
    [] p = "amex"        -> "american express"
    [] p = "master_card" -> "mastercard"
    [] OTHER             -> "unknown"

(***************************************************************************)
(* The reader's life: construction over a file, then parse_dynamic_segment,*)
(* get_symbol and clear_error in any order. pc is "start" before the       *)
(* constructor ran, "ready" after it, and "ub", "threw" or "hang" once a   *)
(* call ran into undefined behaviour, let an exception escape or entered a *)
(* loop that never ends. ret is what the last call returned, calls the     *)
(* number of parse_dynamic_segment calls made.                             *)
(***************************************************************************)
MaxParseCalls == 2

\* the names looked up: "a", "b", "c"
Names == {<<97>>, <<98>>, <<99>>}

Ret(op, ok, name, sym) == [op |-> op, ok |-> ok, name |-> name, sym |-> sym]

NoSym == [res |-> "none", idx |-> 0, gnu |-> NoOutcome, legacy |-> NoOutcome]

After(r) == IF r.ub THEN "ub" ELSE IF r.exc THEN "threw" ELSE "ready"

Construct ==
  /\ pc = "start"
  /\ LET r == construct(file)
     IN /\ elf' = r.e
        /\ pc' = After(r)
        /\ ret' = Ret("elf_file", r.ok, <<>>, NoSym)
  /\ UNCHANGED <<file, calls, card>>

ParseDynamicSegment ==
  /\ pc = "ready"
  /\ calls < MaxParseCalls
  /\ LET r == parse_dynamic_segment(file, elf)
     IN /\ elf' = r.e
        /\ pc' = After(r)
        /\ ret' = Ret("parse_dynamic_segment", r.ok, <<>>, NoSym)
  /\ calls' = calls + 1
  /\ UNCHANGED <<file, card>>

GetSymbol(name) ==
  /\ pc = "ready"
  /\ LET r == get_symbol(elf, name)
     IN /\ pc' = IF r.res \in {"ub", "throw", "hang"}
                   THEN (IF r.res = "throw" THEN "threw" ELSE r.res)
                 ELSE "ready"
        /\ ret' = Ret("get_symbol", r.res = "found", name, r)
  /\ UNCHANGED <<file, elf, calls, card>>

ClearError ==
  /\ pc = "ready"
  /\ elf' = [elf EXCEPT !.last_error = ""]
  /\ ret' = Ret("clear_error", TRUE, <<>>, NoSym)
  /\ UNCHANGED <<file, pc, calls, card>>

Next ==
  \/ Construct
  \/ ParseDynamicSegment
  \/ \E name \in Names : GetSymbol(name)
  \/ ClearError

Start(files) ==
  /\ file \in files
  /\ elf = NewElf
  /\ pc = "start"
  /\ ret = Ret("none", TRUE, <<>>, NoSym)
  /\ calls = 0
  /\ card = NewCard(<<>>)

(***************************************************************************)
(* Object files to read. A file is laid out as: the program header table,  *)
(* the section header table, the dynamic entries, the dynamic string table,*)
(* then the contents of section i at SecOff(i). Section 0 is the null      *)
(* section and the last section is the section-name table, in which the    *)
(* i-th string is the name of section i.                                   *)
(***************************************************************************)
Layout ==
  [phdr |-> 64, shdr |-> 512, dyn |-> 1024, strtab |-> 2048,
   section |-> 4096, step |-> 256]

SecOff(i) == Layout.section + Layout.step * i

ELFMAG == <<ELFMAG0, ELFMAG1, ELFMAG2, ELFMAG3>>

\* "\0ELF": a first byte that is not 0x7f
BadMagic == <<0, ELFMAG1, ELFMAG2, ELFMAG3>>

Is64(class) == class = ELFCLASS64

\* the description of a section: its name, type, size, entry size, address
\* and the region of the file that holds its contents
Sec(name, type, size, entsize, addr, region) ==
  [name |-> name, type |-> type, size |-> size, entsize |-> entsize,
   addr |-> addr, region |-> region]

NullSec == Sec("", 0, 0, 0, 0, NoRegion)

\* the dynamic string table of the files: "", "a", "b", "c", "l"
StrTab == <<0, 97, 0, 98, 0, 99, 0, 108, 0>>

\* the offset in StrTab of the one-letter name
NameOff(name) ==
  CHOOSE o \in 0..(Len(StrTab) - 1) : CStr(StrTab, o) = name

\* the values of a symbol named name
Sym(name, value, info, other, shndx) ==
  [st_name |-> NameOff(name), st_value |-> value, st_size |-> 8,
   st_info |-> info, st_other |-> other, st_shndx |-> shndx]

NullSym ==
  [st_name |-> 0, st_value |-> 0, st_size |-> 0, st_info |-> 0,
   st_other |-> 0, st_shndx |-> 0]

\* .dynsym holding the symbols syms
SymSec(class, syms) ==
  LET size == IF Is64(class) THEN SizeofElf64_Sym ELSE SizeofElf32_Sym
  IN Sec(".dynsym", SHT_DYNSYM, Len(syms) * size, size, 0,
         [kind |-> "sym",
          recs |-> [i \in 1..Len(syms) |->
                      IF Is64(class) THEN Elf64_Sym(syms[i])
                      ELSE Elf32_Sym(syms[i])]])

\* .hash with the bucket and chain arrays
HashSec(buckets, chains) ==
  Sec(".hash", SHT_HASH, 4 * (2 + Len(buckets) + Len(chains)), 4, 0,
      [kind |-> "hash",
       recs |-> <<[nbucket |-> Len(buckets), nchain |-> Len(chains),
                   buckets |-> buckets, chains |-> chains]>>])

\* .gnu.hash
GnuSec(omitted, shift, bloom, buckets, values) ==
  Sec(".gnu.hash", SHT_GNU_HASH, 0, 0, 0,
      [kind |-> "gnu_hash",
       recs |-> <<[nbuckets |-> Len(buckets),
                   omitted_symbols_count |-> omitted,
                   bloom_size |-> Len(bloom), bloom_shift |-> shift,
                   bloom |-> bloom, buckets |-> buckets,
                   values |-> values]>>])

\* a relocation section declaring count entries, over a file that holds entries
\* at its offset; extra is the number of bytes its size has beyond count entries
RelSec(class, name, type, count, extra, entries) ==
  LET size == IF type = SHT_RELA
                THEN (IF Is64(class) THEN SizeofElf64_Rela
                      ELSE SizeofElf32_Rela)
                ELSE (IF Is64(class) THEN SizeofElf64_Rel ELSE SizeofElf32_Rel)
  IN Sec(name, type, count * size + extra, size, 0,
         [kind |-> IF type = SHT_RELA THEN "rela" ELSE "rel",
          recs |-> entries])

\* an array of addresses (.preinit_array, .init_array, .fini_array)
AddrSec(class, name, addrs) ==
  LET size == IF Is64(class) THEN 8 ELSE 4
  IN Sec(name, SHT_INIT_ARRAY, Len(addrs) * size, size, 0,
         [kind |-> "addr", recs |-> addrs])

\* a code section (.init, .fini) at the address
CodeSec(name, addr) == Sec(name, SHT_PROGBITS, 16, 0, addr, NoRegion)

\* the on-disk section header of the section s with index i
Shdr(s, i) ==
  [sh_name |-> i, sh_type |-> s.type, sh_flags |-> 0, sh_addr |-> s.addr,
   sh_offset |-> SecOff(i), sh_size |-> s.size, sh_link |-> 0, sh_info |-> 0,
   sh_addralign |-> 0, sh_entsize |-> s.entsize]

\* the on-disk program header
Phdr(type, offset, filesz) ==
  [p_type |-> type, p_flags |-> 0, p_offset |-> offset, p_vaddr |-> 0,
   p_paddr |-> 0, p_filesz |-> filesz, p_memsz |-> filesz, p_align |-> 0]

\* the dynamic entries of an object: its needed libraries, then the string
\* table and the symbol table (.dynsym is section 1), then DT_NULL
Dyn(class, needed) ==
  [i \in 1..Len(needed) |-> [d_tag |-> DT_NEEDED, d_val |-> needed[i]]]
    \o <<[d_tag |-> DT_STRTAB, d_val |-> Layout.strtab],
         [d_tag |-> DT_STRSZ, d_val |-> Len(StrTab)],
         [d_tag |-> DT_SYMTAB, d_val |-> SecOff(1)],
         [d_tag |-> DT_SYMENT,
          d_val |-> IF Is64(class) THEN SizeofElf64_Sym ELSE SizeofElf32_Sym],
         [d_tag |-> DT_NULL, d_val |-> 0]>>

\* the file with the identification (magic, class), the program header types,
\* the dynamic entries and the sections (the null section and the name table
\* are added here)
File(magic, class, ptypes, dyn, sections) ==
  LET secs  == <<NullSec>> \o sections
                 \o <<Sec(".shstrtab", SHT_STRTAB, Len(sections) + 2, 0, 0,
                          [kind |-> "shstr",
                           recs |-> <<"">> \o [i \in 1..Len(sections) |->
                                                 sections[i].name]
                                      \o <<".shstrtab">>])>>
      dynsz == Len(dyn) * (IF Is64(class) THEN SizeofElf64_Dyn
                           ELSE SizeofElf32_Dyn)
      fixed == (Layout.phdr :> [kind |-> "phdr",
                  recs |-> [i \in 1..Len(ptypes) |->
                              IF ptypes[i] = PT_DYNAMIC
                                THEN Phdr(PT_DYNAMIC, Layout.dyn, dynsz)
                                ELSE Phdr(ptypes[i], 0, Layout.section)]])
               @@ (Layout.shdr :> [kind |-> "shdr",
                     recs |-> [i \in 1..Len(secs) |-> Shdr(secs[i], i - 1)]])
               @@ (Layout.dyn :> [kind |-> "dyn", recs |-> dyn])
               @@ (Layout.strtab :> [kind |-> "strtab", recs |-> StrTab])
      held  == {i \in 1..Len(secs) : secs[i].region # NoRegion}
  IN [exists |-> TRUE, readable |-> TRUE,
      ident |-> [present |-> TRUE, ei_magic |-> magic, ei_class |-> class,
                 ei_data |-> ELFDATA2LSB],
      ehdr |-> [present |-> TRUE, e_phoff |-> Layout.phdr,
                e_shoff |-> Layout.shdr,
                e_phentsize |-> IF Is64(class) THEN SizeofElf64_Phdr
                                ELSE SizeofElf32_Phdr,
                e_phnum |-> Len(ptypes),
                e_shentsize |-> IF Is64(class) THEN SizeofElf64_Shdr
                                ELSE SizeofElf32_Shdr,
                e_shnum |-> Len(secs), e_shstrndx |-> Len(secs) - 1],
      at |-> fixed @@ [o \in {SecOff(i - 1) : i \in held} |->
                         secs[CHOOSE i \in held : SecOff(i - 1) = o].region]]

(***************************************************************************)
(* Spec: files that differ in what the constructor meets first (a missing  *)
(* or unreadable file, a short file, the magic, the class, the byte order) *)
(* over objects with and without a dynamic segment and lifecycle sections. *)
(***************************************************************************)
\* the symbol "a", a global function defined in section 7
SymA == Sym(<<97>>, 4096, 18, 0, 7)

IdentSections(class) ==
  {<<SymSec(class, <<NullSym, SymA>>)>>,
   <<SymSec(class, <<NullSym, SymA>>), CodeSec(".init", 4096),
     AddrSec(class, ".fini_array", <<8192>>)>>}

IdentBodies ==
  {File(magic, class, ptypes, Dyn(class, <<NameOff(<<108>>)>>), sections) :
     magic \in {ELFMAG, BadMagic},
     class \in {0, ELFCLASS32, ELFCLASS64},
     ptypes \in {<<>>, <<PT_LOAD>>, <<PT_LOAD, PT_DYNAMIC>>},
     sections \in IdentSections(ELFCLASS32) \cup IdentSections(ELFCLASS64)}

IdentFiles ==
  IdentBodies
    \cup {[b EXCEPT !.exists = FALSE] : b \in IdentBodies}
    \cup {[b EXCEPT !.readable = FALSE] : b \in IdentBodies}
    \cup {[b EXCEPT !.ident.present = FALSE] : b \in IdentBodies}
    \cup {[b EXCEPT !.ehdr.present = FALSE] : b \in IdentBodies}
    \cup {[b EXCEPT !.ident.ei_data = data] :
            b \in IdentBodies, data \in {0, ELFDATA2MSB, 3}}

Init == Start(IdentFiles)

Spec == Init /\ [][Next]_vars

(***************************************************************************)
(* SpecHeaders: objects of both widths whose header declares entry sizes   *)
(* that are right, zero or those of the other width, over tables of zero   *)
(* and more entries; and objects with every table of 0 to MaxSegments      *)
(* segments, loadable or not, at different virtual addresses.              *)
(* Objects whose section-name table index is in and out of the section     *)
(* table, given by the header or by the link of section 0.                 *)
(***************************************************************************)
MaxSegments == 2

\* the sizes a header may declare for a program and for a section header
DeclaredPhdrSizes == {0, SizeofElf32_Phdr, SizeofElf64_Phdr}

DeclaredShdrSizes == {0, SizeofElf32_Shdr, SizeofElf64_Shdr}

SizeFiles ==
  {[File(ELFMAG, class, ptypes, Dyn(class, <<>>),
         <<SymSec(class, <<NullSym, SymA>>)>>)
      EXCEPT !.ehdr.e_phentsize = phentsize, !.ehdr.e_shentsize = shentsize,
             !.ehdr.e_shnum = IF sections THEN @ ELSE 0] :
     class \in {ELFCLASS32, ELFCLASS64},
     ptypes \in {<<>>, <<PT_LOAD>>, <<PT_LOAD, PT_DYNAMIC>>},
     phentsize \in DeclaredPhdrSizes, shentsize \in DeclaredShdrSizes,
     sections \in BOOLEAN}

\* a segment is its type and its virtual address; an address of a 32-bit file
\* has 32 bits
Segments(class) ==
  {PT_LOAD, PT_DYNAMIC}
    \X ({4096, 8192} \cup (IF Is64(class) THEN {AllOnes} ELSE {12288}))

\* the object whose program header table holds the segments segs
SegmentFile(class, segs) ==
  [File(ELFMAG, class, [i \in 1..Len(segs) |-> segs[i][1]], Dyn(class, <<>>),
        <<SymSec(class, <<NullSym, SymA>>)>>)
     EXCEPT !.at[Layout.phdr].recs =
              [i \in 1..Len(segs) |-> [@[i] EXCEPT !.p_vaddr = segs[i][2]]]]

SegmentFiles(max) ==
  UNION {{SegmentFile(class, segs) : segs \in [1..n -> Segments(class)]} :
         class \in {ELFCLASS32, ELFCLASS64}, n \in 0..max}

\* objects of three sections (the null section, .dynsym, .shstrtab) or of
\* none, whose header names section 1, 2 or 3 as the section-name table or
\* holds the escape SHN_XINDEX, with section 0 linking to section 2 or 3
NameIndexFiles ==
  {[File(ELFMAG, class, <<PT_LOAD>>, Dyn(class, <<>>),
         <<SymSec(class, <<NullSym, SymA>>)>>)
      EXCEPT !.ehdr.e_shstrndx = index,
             !.ehdr.e_shnum = IF sections THEN @ ELSE 0,
             !.at[Layout.shdr].recs[1].sh_link = link] :
     class \in {ELFCLASS32, ELFCLASS64}, index \in {1, 2, 3, SHN_XINDEX},
     link \in {2, 3}, sections \in BOOLEAN}

InitHeaders == Start(SizeFiles \cup SegmentFiles(MaxSegments) \cup NameIndexFiles)

SpecHeaders == InitHeaders /\ [][Next]_vars

(***************************************************************************)
(* SpecLifecycle: objects of both widths with every combination of the     *)
(* five lifecycle sections present or absent; an array section holds 0 to  *)
(* MaxEntries addresses; and objects with one array of a size that is not  *)
(* a whole number of addresses.                                            *)
(***************************************************************************)
MaxEntries == 2

\* n addresses that start after first
Addrs(first, n) == [i \in 1..n |-> first + i]

\* the array section, or nothing when n is -1
ArrayOrNone(class, name, first, n) ==
  IF n < 0 THEN <<>> ELSE <<AddrSec(class, name, Addrs(first, n))>>

CodeOrNone(name, addr, present) ==
  IF present THEN <<CodeSec(name, addr)>> ELSE <<>>

LifecycleFiles ==
  {File(ELFMAG, class, <<PT_LOAD, PT_DYNAMIC>>, Dyn(class, <<>>),
        <<SymSec(class, <<NullSym, SymA>>)>>
          \o ArrayOrNone(class, ".fini_array", 300, nfini)
          \o CodeOrNone(".fini", 500, fini)
          \o ArrayOrNone(class, ".init_array", 200, ninit)
          \o CodeOrNone(".init", 400, init)
          \o ArrayOrNone(class, ".preinit_array", 100, npre)) :
     class \in {ELFCLASS32, ELFCLASS64},
     npre \in -1..MaxEntries, ninit \in -1..MaxEntries,
     nfini \in -1..MaxEntries, init \in BOOLEAN, fini \in BOOLEAN}

\* objects with one lifecycle array of one address whose declared size is one
\* byte more than the address
OddArrayFiles ==
  {File(ELFMAG, class, <<PT_LOAD, PT_DYNAMIC>>, Dyn(class, <<>>),
        <<SymSec(class, <<NullSym, SymA>>),
          [AddrSec(class, name, <<4096>>) EXCEPT !.size = @ + 1]>>) :
     class \in {ELFCLASS32, ELFCLASS64},
     name \in {".preinit_array", ".init_array", ".fini_array"}}

InitLifecycle == Start(LifecycleFiles \cup OddArrayFiles)

SpecLifecycle == InitLifecycle /\ [][Next]_vars

(***************************************************************************)
(* SpecDynamic: objects with a dynamic segment, of both widths: symbol     *)
(* tables of different contents, relocation sections of every type and     *)
(* name, relocation entries of extreme type, symbol index and addend, and  *)
(* well-formed 64-bit shared objects with one needed library and one       *)
(* exported symbol.                                                        *)
(***************************************************************************)
\* the symbol "b", a global object that is undefined, with protected visibility
SymB == Sym(<<98>>, 0, 17, 3, 0)

SymbolTables ==
  {<<NullSym, SymA>>, <<NullSym, SymB>>, <<NullSym, SymA, SymB>>,
   <<NullSym, SymB, SymA>>, <<NullSym, SymA, SymA>>}

SymbolFiles ==
  {File(ELFMAG, class, <<PT_LOAD, PT_DYNAMIC>>, Dyn(class, needed),
        <<SymSec(class, syms)>>) :
     class \in {ELFCLASS32, ELFCLASS64}, syms \in SymbolTables,
     needed \in {<<>>, <<NameOff(<<108>>)>>}}

\* n relocation entries as they lie in a file of the class; r_offset counts
\* from first
RelEntries(class, type, first, n) ==
  [i \in 1..n |->
     LET info == IF Is64(class) THEN <<6 + i, i>> ELSE i * 256 + 6 + i
     IN IF type = SHT_RELA
          THEN [r_offset |-> first + 8 * i, r_info |-> info,
                r_addend |-> 16 * i]
          ELSE [r_offset |-> first + 8 * i, r_info |-> info]]

RelNames == {".rel.plt", ".rel.dyn", ".rela.plt", ".rela.dyn", ".rel.text"}

\* a relocation section of MaxEntries entries (the file holds one more entry
\* after them), its size extra bytes longer
RelOption(class, type, name, first, extra) ==
  RelSec(class, name, type, MaxEntries, extra,
         RelEntries(class, type, first, MaxEntries + 1))

RelSections(class) ==
  {<<>>}
    \cup {<<RelOption(class, type, name, 4096, extra)>> :
            type \in {SHT_REL, SHT_RELA}, name \in RelNames, extra \in {0, 4}}
    \cup {<<RelOption(class, t1, n1, 4096, 0), RelOption(class, t2, n2, first, 0)>> :
            t1 \in {SHT_REL, SHT_RELA}, n1 \in RelNames,
            t2 \in {SHT_REL, SHT_RELA}, n2 \in RelNames,
            first \in {4096, 8192}}

RelocationFiles ==
  UNION {{File(ELFMAG, class, <<PT_LOAD, PT_DYNAMIC>>, Dyn(class, <<>>),
               <<SymSec(class, <<NullSym, SymA>>)>> \o rels) :
            rels \in RelSections(class)} :
         class \in {ELFCLASS32, ELFCLASS64}}

\* a one-word bloom filter, a bucket array and a value array that index the
\* symbol 1 under the name, as a linker writes them
LinkedGnuSec(name, nbuckets) ==
  LET h == gnu_hash(name)
  IN GnuSec(1, 6, <<{U32Mod(h, 64), U32Mod(U32Shr(h, 6), 64)}>>,
            [i \in 1..nbuckets |-> IF i - 1 = U32Mod(h, nbuckets) THEN 1 ELSE 0],
            <<U32(h[1], ClearLow(h)[2] + 1)>>)

LinkedHashSec(name, nbuckets) ==
  HashSec([i \in 1..nbuckets |->
             IF i - 1 = elf_hash(name) % nbuckets THEN 1 ELSE 0], <<0, 0>>)

\* the hash sections of a shared object: the GNU table, the legacy table or both
LinkedTables(name, nbuckets, which) ==
  CASE which = "gnu"  -> <<LinkedGnuSec(name, nbuckets)>>
    [] which = "hash" -> <<LinkedHashSec(name, nbuckets)>>
    [] which = "both" -> <<LinkedHashSec(name, nbuckets),
                           LinkedGnuSec(name, nbuckets)>>

SharedObjects ==
  {File(ELFMAG, ELFCLASS64, <<PT_LOAD, PT_DYNAMIC>>,
        Dyn(ELFCLASS64, <<NameOff(<<108>>)>>),
        <<SymSec(ELFCLASS64, <<NullSym, Sym(name, 4096, 18, 0, 7)>>)>>
          \o LinkedTables(name, nbuckets, which) \o extras) :
     name \in Names, nbuckets \in {1, 2}, which \in {"gnu", "hash", "both"},
     extras \in {<<>>,
                 <<RelOption(ELFCLASS64, SHT_RELA, ".rela.plt", 4096, 0),
                   RelOption(ELFCLASS64, SHT_RELA, ".rela.dyn", 4096, 0)>>,
                 <<CodeSec(".init", 4096),
                   AddrSec(ELFCLASS64, ".init_array", <<8192>>),
                   AddrSec(ELFCLASS64, ".fini_array", <<8200>>),
                   CodeSec(".fini", 4112)>>}}

\* a relocation entry as it lies in a file of the class: r_info packs the
\* type below the symbol index (8 bits of a 32-bit word, 32 bits of a 64-bit
\* word, which is the pair <<low 32 bits, high 32 bits>>)
RawRel(class, type, offset, rtype, rsym, addend) ==
  LET info == IF Is64(class) THEN <<rtype, rsym>> ELSE rsym * 256 + rtype
  IN IF type = SHT_RELA
       THEN [r_offset |-> offset, r_info |-> info, r_addend |-> addend]
       ELSE [r_offset |-> offset, r_info |-> info]

\* entries with the least and the greatest type and symbol index of the
\* class (a type of 256 and more in a 64-bit file), and addends below, at and
\* above zero
UnpackEntries(class, type) ==
  IF Is64(class)
    THEN <<RawRel(class, type, 4096, 256, 1, -16),
           RawRel(class, type, 8192, 0, 2147483647, 0),
           RawRel(class, type, -8, 2147483647, 0, 2147483647)>>
    ELSE <<RawRel(class, type, 4096, 255, 8388607, -16),
           RawRel(class, type, 8192, 0, 1, 0),
           RawRel(class, type, 2147483647, 7, 256, 2147483647)>>

UnpackFiles ==
  UNION {{File(ELFMAG, class, <<PT_LOAD, PT_DYNAMIC>>, Dyn(class, <<>>),
               <<SymSec(class, <<NullSym, SymA>>),
                 RelSec(class, name, type, 3, 0, UnpackEntries(class, type))>>) :
            name \in RelocationNames(type)} :
         class \in {ELFCLASS32, ELFCLASS64}, type \in {SHT_REL, SHT_RELA}}

InitDynamic ==
  Start(SymbolFiles \cup RelocationFiles \cup SharedObjects \cup UnpackFiles)

SpecDynamic == InitDynamic /\ [][Next]_vars

(***************************************************************************)
(* SpecMetadata: objects of both widths whose dynamic segment gives each   *)
(* of the four required entries (DT_STRTAB, DT_STRSZ, DT_SYMTAB, DT_SYMENT)*)
(* with its right value, with the value zero, or not at all; objects whose *)
(* DT_SYMTAB pointer does or does not lead to the first SHT_DYNSYM section *)
(* (no such section, one, one behind another section, two), loaded at      *)
(* address 0 or 4096; objects with 0 to MaxNeeded DT_NEEDED entries naming *)
(* "l" or "a" in any order; and objects with entries behind a DT_NULL      *)
(* entry, in a segment of a right or a wrong declared size.                *)
(***************************************************************************)
MaxNeeded == 2

\* how the dynamic segment gives an entry
Given == {"absent", "zero", "right"}

\* the entry with the tag, given as said
Entry(tag, how, val) ==
  CASE how = "absent" -> <<>>
    [] how = "zero"   -> <<[d_tag |-> tag, d_val |-> 0]>>
    [] how = "right"  -> <<[d_tag |-> tag, d_val |-> val]>>

RequiredFiles ==
  {File(ELFMAG, class, <<PT_LOAD, PT_DYNAMIC>>,
        Entry(DT_STRTAB, strtab, Layout.strtab)
          \o Entry(DT_STRSZ, strsz, Len(StrTab))
          \o Entry(DT_SYMTAB, symtab, SecOff(1))
          \o Entry(DT_SYMENT, syment,
                   IF Is64(class) THEN SizeofElf64_Sym ELSE SizeofElf32_Sym)
          \o <<[d_tag |-> DT_NULL, d_val |-> 0]>>,
        <<SymSec(class, <<NullSym, SymA>>)>>) :
     class \in {ELFCLASS32, ELFCLASS64}, strtab \in Given, strsz \in Given,
     symtab \in Given, syment \in Given}

\* the sections before the name table: .dynsym may be missing, alone, second
\* behind .text, or followed by another section of its type
DynsymLayouts(class) ==
  {<<>>,
   <<CodeSec(".text", 4096)>>,
   <<SymSec(class, <<NullSym, SymA>>)>>,
   <<CodeSec(".text", 4096), SymSec(class, <<NullSym, SymA>>)>>,
   <<SymSec(class, <<NullSym, SymA>>), SymSec(class, <<NullSym, SymB>>)>>}

\* the object loaded at base whose DT_STRTAB and DT_SYMTAB pointers are the
\* addresses strtab and symtab
PointerFile(class, base, strtab, symtab, sections) ==
  LET f == File(ELFMAG, class, <<PT_LOAD, PT_DYNAMIC>>,
                <<[d_tag |-> DT_STRTAB, d_val |-> strtab],
                  [d_tag |-> DT_STRSZ, d_val |-> Len(StrTab)],
                  [d_tag |-> DT_SYMTAB, d_val |-> symtab],
                  [d_tag |-> DT_SYMENT,
                   d_val |-> IF Is64(class) THEN SizeofElf64_Sym
                             ELSE SizeofElf32_Sym],
                  [d_tag |-> DT_NULL, d_val |-> 0]>>, sections)
  IN [f EXCEPT !.at[Layout.phdr].recs[1].p_vaddr = base]

CrossFiles ==
  UNION {{PointerFile(class, base, base + Layout.strtab, symtab, sections) :
            sections \in DynsymLayouts(class)} :
         class \in {ELFCLASS32, ELFCLASS64}, base \in {0, 4096},
         symtab \in {SecOff(1), SecOff(2), 4096 + SecOff(1), 4096 + SecOff(2)}}

\* every sequence of 0 to max string-table offsets of the names "l" and "a"
NeededLists(max) ==
  UNION {[1..n -> {NameOff(<<108>>), NameOff(<<97>>)}] : n \in 0..max}

NeededFiles(max) ==
  {File(ELFMAG, class, <<PT_LOAD, PT_DYNAMIC>>, Dyn(class, needed),
        <<SymSec(class, <<NullSym, SymA>>)>>) :
     class \in {ELFCLASS32, ELFCLASS64}, needed \in NeededLists(max)}

\* dynamic segments with entries behind a DT_NULL entry: the whole table, a
\* DT_NEEDED entry ("a"), a DT_SONAME entry ("c")
NullTagTables(class) ==
  {<<[d_tag |-> DT_NULL, d_val |-> 0]>> \o Dyn(class, <<NameOff(<<108>>)>>),
   Dyn(class, <<NameOff(<<108>>)>>)
     \o <<[d_tag |-> DT_NEEDED, d_val |-> NameOff(<<97>>)]>>,
   Dyn(class, <<>>) \o <<[d_tag |-> DT_SONAME, d_val |-> NameOff(<<99>>)]>>}

\* objects whose dynamic program header declares a file size that is the
\* table's size, not a whole number of entries, one entry less, or one entry
\* more than the file holds there
SegmentSizeFiles ==
  UNION {{[File(ELFMAG, class, <<PT_LOAD, PT_DYNAMIC>>, dyn,
                <<SymSec(class, <<NullSym, SymA>>)>>)
             EXCEPT !.at[Layout.phdr].recs[2].p_filesz = @ + extra] :
            dyn \in NullTagTables(class),
            extra \in {0, 4, -SizeofElf64_Dyn, SizeofElf64_Dyn}} :
         class \in {ELFCLASS32, ELFCLASS64}}

InitMetadata ==
  Start(RequiredFiles \cup CrossFiles \cup NeededFiles(MaxNeeded)
          \cup SegmentSizeFiles)

SpecMetadata == InitMetadata /\ [][Next]_vars

(***************************************************************************)
(* SpecLookup: 64-bit objects with 1 to MaxSym symbols named "a" or "b"    *)
(* behind the null symbol, indexed by legacy tables of one and two buckets *)
(* (chains that end, go on or cycle), by GNU tables whose secondary hash   *)
(* values match or miss the names and end or continue the chain, by GNU    *)
(* tables of different bloom words, with and without a legacy table beside *)
(* the GNU table.                                                          *)
(***************************************************************************)
MaxSym == 2

\* the i-th symbol of a table whose symbols are named names
Named(names) ==
  <<NullSym>> \o [i \in 1..Len(names) |-> Sym(names[i], 4096 + 16 * i, 18, 0, 7)]

\* the names of the symbols of a table of 1 to max symbols
SymbolNames(max) == UNION {[1..n -> {<<97>>, <<98>>}] : n \in 1..max}

\* bucket arrays over n symbols: one bucket, or two of which the second is
\* empty or starts at the last symbol
Buckets(n) == [1..1 -> 0..n] \cup {<<x, y>> : x \in 0..n, y \in {0, n}}

\* chain arrays over n symbols: chain[0] is 0, and a symbol ends its chain,
\* leads to the next symbol or leads back to symbol 1
Chains(n) ==
  {<<0>> \o c : c \in {d \in [1..n -> 0..n] :
                          \A i \in 1..n : d[i] \in {0, 1, i + 1}}}

LookupFile(names, tables) ==
  File(ELFMAG, ELFCLASS64, <<PT_LOAD, PT_DYNAMIC>>, Dyn(ELFCLASS64, <<>>),
       <<SymSec(ELFCLASS64, Named(names))>> \o tables)

HashFiles(max) ==
  UNION {{LookupFile(names, <<HashSec(buckets, chains)>>) :
            buckets \in Buckets(Len(names)), chains \in Chains(Len(names))} :
         names \in SymbolNames(max)}

\* a secondary hash value: the hash of the name with the low bit replaced
GnuValue(name, bit) ==
  U32(gnu_hash(name)[1], ClearLow(gnu_hash(name))[2] + bit)

\* a symbol's name with its secondary hash value: "a" or "b" under the value
\* of "a" (the hash of "b" differs from it in the low bit only), and "a" under
\* the value of "c"; each as an inner and as the last entry of a chain
GnuEntries ==
  {<<name, GnuValue(<<97>>, bit)>> : name \in {<<97>>, <<98>>}, bit \in {0, 1}}
    \cup {<<<<97>>, GnuValue(<<99>>, bit)>> : bit \in {0, 1}}

\* the legacy table that chains every symbol: 1 -> 2 -> ... -> n -> 0
ChainAll(n) ==
  HashSec(<<1>>, <<0>> \o [i \in 1..n |-> IF i = n THEN 0 ELSE i + 1])

LegacyOrNone(n) == {<<>>, <<ChainAll(n)>>}

FullWord == 0..(bloom_word_size - 1)

\* the bucket arrays of a GNU table over n symbols, and the tables of a file:
\* a GNU table alone, or a one-bucket GNU table beside the legacy table
GnuBuckets(n) == [1..1 -> 0..n] \cup {<<x, y>> : x \in {0, 1}, y \in {0, n}}

GnuTables(n) ==
  {<<b, <<>>>> : b \in GnuBuckets(n)}
    \cup {<<<<x>>, <<ChainAll(n)>>>> : x \in 0..n}

\* GNU tables over 1 to max symbols, under a bloom filter that rejects nothing
GnuChainFiles(max) ==
  UNION {{LookupFile([i \in 1..n |-> entries[i][1]],
                     <<GnuSec(1, 6, <<FullWord>>, t[1],
                              [i \in 1..n |-> entries[i][2]])>> \o t[2]) :
            entries \in [1..n -> GnuEntries], t \in GnuTables(n)} :
         n \in 1..max}

\* bloom filters: the bits of "a" only, the first bits of "a", "b", "c" without
\* their second bit, and two words of which one is empty
BloomWords ==
  {<<{6, 24}>>, <<{6, 7, 8}>>, <<{}, FullWord>>, <<FullWord, {}>>}

\* GNU tables of different bloom words whose one bucket starts at symbol 1 and
\* whose values are those of "a", the last one ending the chain
GnuBloomFiles(max) ==
  UNION {{LookupFile(names,
                     <<GnuSec(1, shift, bloom, <<1>>,
                              [i \in 1..Len(names) |->
                                 GnuValue(<<97>>, IF i = Len(names) THEN 1 ELSE 0)])>>
                       \o legacy) :
            bloom \in BloomWords, shift \in {6, 0},
            legacy \in LegacyOrNone(Len(names))} :
         names \in SymbolNames(max)}

InitLookup ==
  Start(HashFiles(MaxSym) \cup GnuChainFiles(MaxSym) \cup GnuBloomFiles(MaxSym))

SpecLookup == InitLookup /\ [][Next]_vars

(***************************************************************************)
(* SpecMalformed: 64-bit objects with 1 to MaxSym symbols named "a" or "b" *)
(* behind the null symbol, indexed by a table whose values lead outside a  *)
(* table or back into the chain.                                           *)
(***************************************************************************)
\* n secondary hash values, those of "a", the last one ending the chain
ValuesOfA(n) == [i \in 1..n |-> GnuValue(<<97>>, IF i = n THEN 1 ELSE 0)]

\* tables over n symbols: a legacy bucket beyond the last symbol, a chain
\* array shorter than the symbol table, a chain that leads back to its symbol,
\* a GNU table without a bloom word, a GNU bucket beyond the end of the symbol
\* table, an omitted-symbol count above the bucket's start, and an
\* omitted-symbol count above the number of symbols
MalformedTables(n) ==
  {HashSec(<<n + 1>>, [i \in 1..(n + 1) |-> 0]),
   HashSec(<<n>>, [i \in 1..n |-> 0]),
   HashSec(<<n>>, [i \in 1..(n + 1) |-> IF i = n + 1 THEN n ELSE 0]),
   GnuSec(1, 6, <<>>, <<1>>, ValuesOfA(n)),
   GnuSec(1, 6, <<FullWord>>, <<n + 2>>, ValuesOfA(n)),
   GnuSec(n + 1, 6, <<FullWord>>, <<1>>, ValuesOfA(n)),
   GnuSec(n + 2, 6, <<FullWord>>, <<1>>, ValuesOfA(n))}

MalformedTableFiles(max) ==
  UNION {{LookupFile(names, <<table>>) : table \in MalformedTables(Len(names))} :
         names \in SymbolNames(max)}

InitMalformed == Start(MalformedTableFiles(MaxSym))

SpecMalformed == InitMalformed /\ [][Next]_vars

(***************************************************************************)
(* SpecBloom: 32-bit files with a GNU table whose bloom filter was built   *)
(* for words of 32 bits: each symbol's two bits, h1 mod 32 and             *)
(* (h1 >> shift) mod 32, are set in word (h1 / 32) & (word count - 1).     *)
(***************************************************************************)
U32Div32(h) == h[1] * 2048 + (h[2] \div 32)

\* the two bits of a name in a filter of 32-bit words, and its word
Bits32(name, shift) ==
  {U32Mod(gnu_hash(name), 32), U32Mod(U32Shr(gnu_hash(name), shift), 32)}

Word32(name, count) == BitAnd(U32Div32(gnu_hash(name)), count - 1)

\* the filter of count 32-bit words for the names
Filter32(names, shift, count) ==
  [w \in 1..count |->
     UNION {Bits32(names[i], shift) :
              i \in {j \in 1..Len(names) : Word32(names[j], count) = w - 1}}]

Bloom32Files(max) ==
  UNION {{File(ELFMAG, ELFCLASS32, <<PT_LOAD, PT_DYNAMIC>>,
               Dyn(ELFCLASS32, <<>>),
               <<SymSec(ELFCLASS32, Named(names)),
                 GnuSec(1, shift, Filter32(names, shift, count), <<1>>,
                        [i \in 1..Len(names) |->
                           GnuValue(names[i],
                                    IF i = Len(names) THEN 1 ELSE 0)])>>
                 \o legacy) :
            shift \in {5, 6}, count \in {1, 2},
            legacy \in LegacyOrNone(Len(names))} :
         names \in SymbolNames(max)}

InitBloom == Start(Bloom32Files(MaxSym))

SpecBloom == InitBloom /\ [][Next]_vars

(***************************************************************************)
(* The card program: a card_number is constructed over a number and main   *)
(* prints its provider and whether it is valid.                            *)
(***************************************************************************)
\* what main prints for a number
Shown(type, valid) == [op |-> "main", ok |-> valid, name |-> type, sym |-> NoSym]

CardNumber ==
  /\ pc = "start"
  /\ card' = card_number(card.number)
  /\ pc' = "ready"
  /\ ret' = Ret("card_number", TRUE, <<>>, NoSym)
  /\ UNCHANGED <<file, elf, calls>>

\* main: prints the provider and is_valid() of the number
Report ==
  /\ pc = "ready"
  /\ ret' = Shown(provider_str(card.provider), card.valid)
  /\ UNCHANGED <<file, elf, pc, calls, card>>

NextLuhn ==
  \/ CardNumber
  \/ Report

(***************************************************************************)
(* SpecLuhn: the card numbers of the test program and every string of 0 to *)
(* MaxDigits decimal digits.                                               *)
(***************************************************************************)
MaxDigits == 3

\* the string of the digits
Digits(ds) == [i \in 1..Len(ds) |-> Char0 + ds[i]]

amex ==
  {Digits(<<3, 7, 8, 2, 8, 2, 2, 4, 6, 3, 1, 0, 0, 0, 5>>),
   Digits(<<3, 7, 1, 4, 4, 9, 6, 3, 5, 3, 9, 8, 4, 3, 1>>)}

mastercard ==
  {Digits(<<2, 2, 2, 1, 0, 0, 0, 0, 0, 0, 0, 0, 0, 0, 0, 9>>),
   Digits(<<2, 2, 2, 3, 0, 0, 0, 0, 4, 8, 4, 0, 0, 0, 1, 1>>),
   Digits(<<2, 2, 2, 3, 0, 1, 6, 7, 6, 8, 7, 3, 9, 3, 1, 3>>),
   Digits(<<5, 5, 5, 5, 5, 5, 5, 5, 5, 5, 5, 5, 4, 4, 4, 4>>),
   Digits(<<5, 1, 0, 5, 1, 0, 5, 1, 0, 5, 1, 0, 5, 1, 0, 0>>)}

visa ==
  {Digits(<<4, 1, 1, 1, 1, 1, 1, 1, 1, 1, 1, 1, 1, 1, 1, 1>>),
   Digits(<<4, 0, 1, 2, 8, 8, 8, 8, 8, 8, 8, 8, 1, 8, 8, 1>>)}

\* every string of 0 to max decimal digits
DigitStrings(max) == UNION {{Digits(ds) : ds \in [1..n -> 0..9]} : n \in 0..max}

\* no file is read by the card program
NoFile == [exists |-> FALSE, readable |-> FALSE]

InitLuhn ==
  /\ card \in {NewCard(number) :
                 number \in amex \cup mastercard \cup visa
                              \cup DigitStrings(MaxDigits)}
  /\ file = NoFile
  /\ elf = NewElf
  /\ pc = "start"
  /\ ret = Ret("none", TRUE, <<>>, NoSym)
  /\ calls = 0

SpecLuhn == InitLuhn /\ [][NextLuhn]_vars

(***************************************************************************)
(* SpecHash: gnu_hash applied to a name: every name of up to MaxName bytes *)
(* over a low, a middle and the highest byte value, and the names of up to *)
(* LongName highest bytes (from 4 bytes on the value passes 2^32, from 11  *)
(* bytes on it passes 2^64). The call is computed with the accumulator as  *)
(* a 32-bit and as a 64-bit uint_fast32_t.                                 *)
(***************************************************************************)
MaxName == 4

LongName == 12

\* sizeof(uint_fast32_t) of a build
FastWidths == {4, 8}

HashedBytes == {1, 97, 255}

HashNames(max, long) ==
  UNION {[1..n -> HashedBytes] : n \in 0..max}
    \cup {[i \in 1..n |-> 255] : n \in 1..long}

GnuHash ==
  /\ pc = "start"
  /\ pc' = "ready"
  /\ ret' = Ret("gnu_hash", TRUE, ret.name,
                [hash |-> gnu_hash(ret.name),
                 fast |-> [w \in FastWidths |-> gnu_hash_fast(ret.name, w)],
                 h    |-> [w \in FastWidths |->
                            gnu_hash_accumulator(ret.name, w)]])
  /\ UNCHANGED <<file, elf, calls, card>>

NextHash == GnuHash

InitHash ==
  /\ file = NoFile
  /\ elf = NewElf
  /\ pc = "start"
  /\ ret \in {Ret("none", TRUE, name, NoSym) : name \in HashNames(MaxName, LongName)}
  /\ calls = 0
  /\ card = NewCard(<<>>)

SpecHash == InitHash /\ [][NextHash]_vars

(***************************************************************************)
(* Properties                                                              *)
(***************************************************************************)
\* no program header of the reader is PT_DYNAMIC
NoDynamicHeader(e) ==
  FindDynamicFrom(e.program_headers, 0) = Len(e.program_headers)

\* the step is a call of parse_dynamic_segment
ParseStep == calls' = calls + 1 /\ ret'.op = "parse_dynamic_segment"

\* nothing of the dynamic segment is held by the reader
NothingPopulated(e) ==
  /\ e.dynamic_entries = <<>> /\ e.dynamic_symbols = <<>>
  /\ e.needed_libraries = <<>> /\ e.dynamic_segment_string_table = <<>>
  /\ e.hash_buckets = <<>> /\ e.hash_chains = <<>>
  /\ e.gnu_hash_buckets = <<>> /\ e.gnu_hash_values = <<>>
  /\ e.gnu_hash_bloom_words = <<>>
  /\ e.plt_rel_entries = <<>> /\ e.dyn_rel_entries = <<>>
  /\ e.plt_rela_entries = <<>> /\ e.dyn_rela_entries = <<>>

\* C1: right after the constructor ran over a file whose first four bytes are
\* not 0x7f 'E' 'L' 'F', error() is true and the program headers, the section
\* headers and the two lifecycle lists are empty.
C1_BadMagicIsRejected ==
  (/\ ret.op = "elf_file"
   /\ file.exists /\ file.readable /\ file.ident.present
   /\ file.ident.ei_magic # ELFMAG)
  => /\ error(elf)
     /\ elf.program_headers = <<>> /\ elf.section_headers = <<>>
     /\ elf.init_functions = <<>> /\ elf.fini_functions = <<>>

\* a file with a wrong magic was constructed over without an error and its
\* tables and lifecycle lists were decoded
C1_BadMagicAccepted ==
  /\ ret.op = "elf_file" /\ file.ident.ei_magic = BadMagic
  /\ ~error(elf)
  /\ elf.program_headers # <<>> /\ elf.section_headers # <<>>
  /\ elf.init_functions # <<>> /\ elf.fini_functions # <<>>

FileSections == file.at[file.ehdr.e_shoff].recs

FileSectionName(i) ==
  file.at[FileSections[file.ehdr.e_shstrndx + 1].sh_offset]
    .recs[FileSections[i].sh_name + 1]

\* the first section of the file with the name, 0 when there is none
FileSection(name) ==
  LET named == {i \in 1..Len(FileSections) : FileSectionName(i) = name}
  IN IF named = {} THEN 0
     ELSE CHOOSE i \in named : \A j \in named : i <= j

\* the addresses the array section of the name holds in the file, in file
\* order, and the address of the code section of the name
FileArray(name) ==
  IF FileSection(name) = 0 THEN <<>>
  ELSE file.at[FileSections[FileSection(name)].sh_offset].recs

FileAddr(name) ==
  IF FileSection(name) = 0 THEN <<>>
  ELSE <<FileSections[FileSection(name)].sh_addr>>

Backwards(s) == [i \in 1..Len(s) |-> s[Len(s) + 1 - i]]

\* C8: after a construction that succeeded, the initializer list is the
\* .preinit_array entries in file order, then the address of .init if it
\* exists, then the .init_array entries in file order, and the terminator list
\* is the .fini_array entries in reverse file order, then the address of .fini
\* if it exists.
C8_LifecycleOrder ==
  (ret.op = "elf_file" /\ ret.ok)
  => /\ elf.init_functions =
          FileArray(".preinit_array") \o FileAddr(".init")
            \o FileArray(".init_array")
     /\ elf.fini_functions =
          Backwards(FileArray(".fini_array")) \o FileAddr(".fini")

\* a 32-bit object with all five sections was constructed over: two entries in
\* each array
C8_AllFiveSections ==
  /\ ret.op = "elf_file" /\ ret.ok /\ is_32_bit(elf)
  /\ Len(FileArray(".preinit_array")) >= 2 /\ Len(FileArray(".init_array")) >= 2
  /\ Len(FileArray(".fini_array")) >= 2
  /\ FileAddr(".init") # <<>> /\ FileAddr(".fini") # <<>>
  /\ Len(elf.init_functions) >= 5 /\ Len(elf.fini_functions) >= 3

\* the symbol records of the file (.dynsym is section 1) and the values one
\* of them encodes, by the field order of Elf64_Sym and of Elf32_Sym
FileSymbols == file.at[SecOff(1)].recs

OnDisk(raw) ==
  IF file.ident.ei_class = ELFCLASS64
    THEN [st_name |-> FromLE(Bytes(raw, 0, 4)), st_info |-> raw[5],
          st_other |-> raw[6], st_shndx |-> FromLE(Bytes(raw, 6, 2)),
          st_value |-> FromLE(Bytes(raw, 8, 8)),
          st_size |-> FromLE(Bytes(raw, 16, 8))]
    ELSE [st_name |-> FromLE(Bytes(raw, 0, 4)),
          st_value |-> FromLE(Bytes(raw, 4, 4)),
          st_size |-> FromLE(Bytes(raw, 8, 4)), st_info |-> raw[13],
          st_other |-> raw[14], st_shndx |-> FromLE(Bytes(raw, 14, 2))]

FileSymbolName(i) ==
  CStr(file.at[Layout.strtab].recs, OnDisk(FileSymbols[i]).st_name)

\* C2: after a parse that succeeded, every dynamic symbol of the reader has
\* the name offset, value, size, type/binding byte, visibility byte and
\* section index that its on-disk record encodes, whatever the file's width
\* (so a 64-bit and a 32-bit record of the same values give the same entry).
C2_SymbolsCarryOnDiskValues ==
  (ret.op = "parse_dynamic_segment" /\ ret.ok)
  => /\ Len(elf.dynamic_symbols) = Len(FileSymbols)
     /\ \A i \in 1..Len(FileSymbols) :
          LET sym == elf.dynamic_symbols[i]
              rec == OnDisk(FileSymbols[i])
          IN /\ sym.st_name = rec.st_name /\ sym.st_value = rec.st_value
             /\ sym.st_size = rec.st_size /\ sym.st_info = rec.st_info
             /\ sym.st_other = rec.st_other /\ sym.st_shndx = rec.st_shndx

\* a 64-bit file whose symbol 1 has a type/binding byte and a section index
\* was parsed, and the reader's symbol 1 has neither
C2_Lost64BitFields ==
  /\ ret.op = "parse_dynamic_segment" /\ ret.ok /\ is_64_bit(elf)
  /\ OnDisk(FileSymbols[2]).st_info # 0 /\ OnDisk(FileSymbols[2]).st_shndx # 0
  /\ elf.dynamic_symbols[2].st_info = 0 /\ elf.dynamic_symbols[2].st_shndx = 0

\* the relocation-typed sections of the file; the two names a section of a
\* type may have; the last section of a type and name (0: none)
FileRelocations ==
  {i \in 1..Len(FileSections) : FileSections[i].sh_type \in {SHT_REL, SHT_RELA}}

NamedForItsType(i) ==
  IF FileSections[i].sh_type = SHT_REL
    THEN FileSectionName(i) \in {".rel.plt", ".rel.dyn"}
    ELSE FileSectionName(i) \in {".rela.plt", ".rela.dyn"}

LastRelocation(type, name) ==
  LET them == {i \in FileRelocations :
                 FileSections[i].sh_type = type /\ FileSectionName(i) = name}
  IN IF them = {} THEN 0 ELSE CHOOSE i \in them : \A j \in them : j <= i

\* the r_offset of each entry of a group, and of each entry the section
\* declares (none for section 0)
Offsets(entries) == [i \in 1..Len(entries) |-> entries[i].r_offset]

DeclaredOffsets(i) ==
  IF i = 0 THEN <<>>
  ELSE LET h == FileSections[i]
       IN [k \in 1..(h.sh_size \div h.sh_entsize) |->
             file.at[h.sh_offset].recs[k].r_offset]

\* C7: after a call of parse_dynamic_segment, (a) if it returned true, each
\* of the four groups holds the entries of the section of its type named for
\* it (.rel.plt, .rel.dyn, .rela.plt, .rela.dyn) and of no other section, and
\* (b) if the file has a relocation-typed section with another name, the call
\* returned false and error() is true.
C7_ClassifiedByName ==
  (ret.op = "parse_dynamic_segment")
  => /\ ret.ok =>
          /\ Offsets(elf.plt_rel_entries) =
               DeclaredOffsets(LastRelocation(SHT_REL, ".rel.plt"))
          /\ Offsets(elf.dyn_rel_entries) =
               DeclaredOffsets(LastRelocation(SHT_REL, ".rel.dyn"))
          /\ Offsets(elf.plt_rela_entries) =
               DeclaredOffsets(LastRelocation(SHT_RELA, ".rela.plt"))
          /\ Offsets(elf.dyn_rela_entries) =
               DeclaredOffsets(LastRelocation(SHT_RELA, ".rela.dyn"))
     /\ (\E i \in FileRelocations : ~NamedForItsType(i))
          => (pc = "ready" /\ ~ret.ok /\ error(elf))

\* a 32-bit file with a relocation section of another name was parsed, and the
\* call ran into undefined behaviour instead of recording an error
C7_OverrunBeforeNameCheck ==
  /\ ret.op = "parse_dynamic_segment" /\ pc = "ub" /\ is_32_bit(elf)
  /\ \E i \in FileRelocations : ~NamedForItsType(i)
  /\ ~error(elf)

\* C10: over a well-formed 64-bit shared object with one needed library and
\* one exported symbol, no call fails: error() is false after every operation,
\* the constructor and parse_dynamic_segment succeed, after the parse the
\* needed-library list has exactly one element (the library's name), and
\* get_symbol of the exported name returns the exported symbol.
C10_EndToEnd ==
  (file \in SharedObjects)
  => /\ pc \in {"start", "ready"}
     /\ ~error(elf)
     /\ ret.op \in {"elf_file", "parse_dynamic_segment"} => ret.ok
     /\ calls = 1 =>
          /\ Len(elf.needed_libraries) = 1
          /\ Deref(elf, elf.needed_libraries[1]) = <<108>>
     /\ (calls >= 1 /\ ret.op = "get_symbol" /\ ret.name = FileSymbolName(2))
          => /\ ret.sym.res = "found" /\ ret.sym.idx = 1
             /\ At(elf.dynamic_symbols, ret.sym.idx).st_value
                  = OnDisk(FileSymbols[2]).st_value

\* the exported symbol of a shared object with both hash tables was found
\* after one parse, with no error and one needed library
C10_ExportedSymbolFound ==
  /\ file \in SharedObjects /\ calls = 1
  /\ ret.op = "get_symbol" /\ ret.name = FileSymbolName(2)
  /\ ret.sym.res = "found" /\ ~error(elf)
  /\ Len(elf.needed_libraries) = 1
  /\ elf.hash_buckets # <<>> /\ elf.gnu_hash_buckets # <<>>

\* the name the reader resolved for the symbol with C++ index i
SymbolName(i) == Deref(elf, At(elf.dynamic_symbols, i).st_name_str)

\* the k-th index the legacy walk for the name visits: the bucket's value,
\* then the chain value of the index before
RECURSIVE Link(_, _)
Link(name, k) ==
  IF k = 0
    THEN At(elf.hash_buckets, elf_hash(name) % Len(elf.hash_buckets))
  ELSE At(elf.hash_chains, Link(name, k - 1))

\* the indices visited before the k-th neither end the chain nor match
Walked(name, k) ==
  \A j \in 0..(k - 1) :
     Link(name, j) # STN_UNDEF /\ SymbolName(Link(name, j)) # name

\* C3: a legacy lookup of a name starts at buckets[elf_hash(name) mod
\* nbuckets] and follows chains[index]: when the k-th index visited is the
\* first whose symbol has the name, the lookup returns that symbol, having
\* compared the names of the indices before it in order; when the k-th index
\* visited is 0 and no symbol before it has the name, it returns not-found.
C3_LegacyLookup ==
  (ret.op = "get_symbol" /\ ret.sym.legacy.res # "none"
     /\ elf.hash_buckets # <<>>)
  => \A k \in 0..Len(elf.dynamic_symbols) :
       /\ (/\ Walked(ret.name, k)
           /\ Link(ret.name, k) # STN_UNDEF
           /\ SymbolName(Link(ret.name, k)) = ret.name)
          => /\ ret.sym.legacy.res = "found"
             /\ ret.sym.legacy.idx = Link(ret.name, k)
             /\ ret.sym.legacy.names = [j \in 1..(k + 1) |-> Link(ret.name, j - 1)]
       /\ (Walked(ret.name, k) /\ Link(ret.name, k) = STN_UNDEF)
          => /\ ret.sym.legacy.res = "notfound"
             /\ ret.sym.legacy.names = [j \in 1..k |-> Link(ret.name, j - 1)]

\* the lookup of "c", which no symbol has, walked a chain of two symbols that
\* collide with it and returned not-found
C3_CollidingChainWalked ==
  /\ ret.op = "get_symbol" /\ ret.name = <<99>>
  /\ ret.sym.legacy.res = "notfound" /\ Len(ret.sym.legacy.names) = 2
  /\ Len(elf.hash_buckets) = 2

\* the number a uint32 pair stands for (the hashes of the names looked up are
\* below 2^31)
Num(h) == h[1] * Half + h[2]

\* the position of the secondary hash value the GNU walk starts at, and of the
\* first value from there on with low bit 1 (the last position if there is none)
GnuStart(name) ==
  At(elf.gnu_hash_buckets,
     Num(gnu_hash(name)) % Len(elf.gnu_hash_buckets))
    - elf.gnu_hash_omitted_symbols_count

GnuChainEnd(name) ==
  LET ends == {p \in GnuStart(name)..(Len(elf.gnu_hash_values) - 1) :
                 At(elf.gnu_hash_values, p)[2] % 2 = 1}
  IN IF ends = {} THEN Len(elf.gnu_hash_values) - 1
     ELSE CHOOSE p \in ends : \A q \in ends : p <= q

\* the entry at position p matches the name: its hash without the low bit, and
\* the name of its symbol
GnuMatch(name, p) ==
  /\ Num(At(elf.gnu_hash_values, p)) \div 2 = Num(gnu_hash(name)) \div 2
  /\ SymbolName(p + elf.gnu_hash_omitted_symbols_count) = name

\* C4: a GNU lookup that walks a chain examines and returns no entry after the
\* first entry whose secondary hash value has low bit 1, and returns not-found
\* when no entry up to and including that one matches the hash (without the
\* low bit) and the name.
C4_GnuChainEnd ==
  (ret.op = "get_symbol" /\ ret.sym.gnu.res \in {"found", "notfound"}
     /\ ret.sym.gnu.values # <<>>)
  => /\ \A i \in 1..Len(ret.sym.gnu.values) :
          ret.sym.gnu.values[i] <= GnuChainEnd(ret.name)
     /\ \A i \in 1..Len(ret.sym.gnu.names) :
          ret.sym.gnu.names[i]
            <= GnuChainEnd(ret.name) + elf.gnu_hash_omitted_symbols_count
     /\ ret.sym.gnu.res = "found"
          => ret.sym.gnu.idx
               <= GnuChainEnd(ret.name) + elf.gnu_hash_omitted_symbols_count
     /\ (\A p \in GnuStart(ret.name)..GnuChainEnd(ret.name) :
           ~GnuMatch(ret.name, p))
          => ret.sym.gnu.res = "notfound"

\* a GNU lookup returned a symbol that lies after the end of the chain it
\* walked
C4_FoundAfterChainEnd ==
  /\ ret.op = "get_symbol" /\ ret.sym.gnu.res = "found"
  /\ ret.sym.gnu.idx
       > GnuChainEnd(ret.name) + elf.gnu_hash_omitted_symbols_count

\* the bloom word probed for the name and the two bit positions probed in it
BloomWord(name) ==
  At(elf.gnu_hash_bloom_words,
     BitAnd(Num(gnu_hash(name)) \div bloom_word_size,
            Len(elf.gnu_hash_bloom_words) - 1))

BloomBits(name) ==
  {Num(gnu_hash(name)) % bloom_word_size,
   (Num(gnu_hash(name)) \div (2^elf.gnu_hash_bloom_shift)) % bloom_word_size}

\* C5: when one of the two bits probed for the name is unset in its bloom
\* word, the GNU lookup returns not-found and has read no bucket, no secondary
\* hash value and no symbol name.
C5_BloomRejects ==
  (/\ ret.op = "get_symbol" /\ elf.gnu_hash_buckets # <<>>
   /\ ~(BloomBits(ret.name) \subseteq BloomWord(ret.name)))
  => /\ ret.sym.gnu.res = "notfound"
     /\ ~ret.sym.gnu.bucket
     /\ ret.sym.gnu.values = <<>> /\ ret.sym.gnu.names = <<>>

\* a name whose first bit is set and whose second bit is unset was rejected
C5_RejectedBySecondBit ==
  /\ ret.op = "get_symbol" /\ elf.gnu_hash_buckets # <<>>
  /\ Num(gnu_hash(ret.name)) % bloom_word_size \in BloomWord(ret.name)
  /\ ~(BloomBits(ret.name) \subseteq BloomWord(ret.name))
  /\ ret.sym.gnu.res = "notfound" /\ ~ret.sym.gnu.bucket

\* C6: get_symbol returns the GNU lookup's symbol when that lookup finds one,
\* without asking the legacy table; it asks the legacy table only when the GNU
\* table is absent or its lookup returned not-found, and then returns the
\* legacy lookup's result (not-found when both miss or no table exists); the
\* symbol it returns has the name asked for.
C6_CombinedLookup ==
  (ret.op = "get_symbol")
  => LET g == lookup_gnu_symbol(elf, ret.name)
         l == lookup_elf_symbol(elf, ret.name)
     IN /\ g.res = "found"
             => /\ ret.sym.res = "found" /\ ret.sym.idx = g.idx
                /\ ret.sym.legacy.res = "none"
        /\ ret.sym.legacy.res # "none"
             => (elf.gnu_hash_buckets = <<>> \/ g.res = "notfound")
        /\ g.res = "notfound"
             => /\ ret.sym.res = l.res /\ ret.sym.idx = l.idx
                /\ ret.sym.legacy = l
        /\ (g.res = "notfound" /\ l.res = "notfound")
             => ret.sym.res = "notfound"
        /\ ret.sym.res = "found" => SymbolName(ret.sym.idx) = ret.name

\* the GNU table exists and found a symbol other than the one the legacy table
\* would find
C6_GnuWinsOverLegacy ==
  /\ ret.op = "get_symbol" /\ ret.sym.res = "found"
  /\ elf.gnu_hash_buckets # <<>> /\ elf.hash_buckets # <<>>
  /\ lookup_elf_symbol(elf, ret.name).res = "found"
  /\ lookup_elf_symbol(elf, ret.name).idx # ret.sym.idx

\* C11: right after the constructor ran over a file whose identification it
\* could read, (a) if the class byte is neither ELFCLASS32 nor ELFCLASS64 or
\* the data byte is neither ELFDATA2LSB nor ELFDATA2MSB, error() is true and
\* no program or section header was read, and (b) if error() is false, exactly
\* one of is_32_bit / is_64_bit and exactly one of is_little_endian /
\* is_big_endian is true.
C11_IdentificationValidated ==
  (ret.op = "elf_file")
  => /\ (/\ file.exists /\ file.readable /\ file.ident.present
         /\ \/ file.ident.ei_class \notin {ELFCLASS32, ELFCLASS64}
            \/ file.ident.ei_data \notin {ELFDATA2LSB, ELFDATA2MSB})
          => /\ error(elf)
             /\ elf.program_headers = <<>> /\ elf.section_headers = <<>>
     /\ ~error(elf)
          => /\ is_32_bit(elf) # is_64_bit(elf)
             /\ is_little_endian(elf) # is_big_endian(elf)

\* the program headers of the file, and the entry sizes of its width
FileSegments == file.at[file.ehdr.e_phoff].recs

PhdrSize == IF Is64(file.ident.ei_class) THEN SizeofElf64_Phdr ELSE SizeofElf32_Phdr

ShdrSize == IF Is64(file.ident.ei_class) THEN SizeofElf64_Shdr ELSE SizeofElf32_Shdr

\* the constructor has just run and read the header of an object of a known
\* width
HeaderRead ==
  /\ ret.op = "elf_file"
  /\ file.exists /\ file.readable /\ file.ident.present /\ file.ehdr.present
  /\ file.ident.ei_class \in {ELFCLASS32, ELFCLASS64}

\* C12: right after the constructor read the header of an object, (a) if the
\* declared program header size or the declared section header size is not
\* the size of the record of the object's width, the constructor failed with
\* an error; (b) a declared program header size that is wrong is reported as
\* such whatever e_phnum is, and a right one is not; (c) once the program
\* headers were read, a declared section header size that is wrong is
\* reported as such whatever e_shnum is, and a right one is not.
C12_EntrySizesValidated ==
  HeaderRead
  => /\ (file.ehdr.e_phentsize # PhdrSize \/ file.ehdr.e_shentsize # ShdrSize)
          => (~ret.ok /\ error(elf))
     /\ (file.ehdr.e_phentsize # PhdrSize)
          <=> (error_message(elf) = "Invalid program header size")
     /\ (file.ehdr.e_phentsize = PhdrSize
           /\ Len(FileSegments) >= file.ehdr.e_phnum)
          => ((file.ehdr.e_shentsize # ShdrSize)
                <=> (error_message(elf) = "Invalid section header size"))

\* a header that declares no section and the section header size of the other
\* width was rejected for that size
C12_WrongSizeOfNoEntry ==
  /\ HeaderRead /\ file.ehdr.e_shnum = 0
  /\ file.ehdr.e_phentsize = PhdrSize
  /\ file.ehdr.e_shentsize \notin {0, ShdrSize}
  /\ ~ret.ok /\ error_message(elf) = "Invalid section header size"

\* the constructor has just run and decoded the program headers
SegmentsDecoded ==
  /\ HeaderRead /\ file.ehdr.e_phentsize = PhdrSize
  /\ Len(FileSegments) >= file.ehdr.e_phnum

\* the virtual addresses of the loadable segments of the file
LoadableAddresses ==
  {FileSegments[i].p_vaddr :
     i \in {j \in 1..file.ehdr.e_phnum : FileSegments[j].p_type = PT_LOAD}}

\* the base address is the least of the loadable addresses, as unsigned
\* 64-bit values
BaseIsLeastLoadable ==
  /\ get_base_address(elf) \in LoadableAddresses
  /\ \A v \in LoadableAddresses : ~U64Less(v, get_base_address(elf))

\* C13 as stated: after the program headers were decoded, the base address is
\* the least virtual address of the loadable segments, and it is
\* 0xFFFFFFFFFFFFFFFF exactly when no segment is loadable.
C13_BaseAddressSentinelExactly ==
  SegmentsDecoded
  => /\ LoadableAddresses # {} => BaseIsLeastLoadable
     /\ (get_base_address(elf) = AllOnes) <=> (LoadableAddresses = {})

\* C13 as amended: after the program headers were decoded, the base address is
\* the least virtual address of the loadable segments, and it is
\* 0xFFFFFFFFFFFFFFFF when no segment is loadable.
C13_BaseAddress ==
  SegmentsDecoded
  => /\ LoadableAddresses # {} => BaseIsLeastLoadable
     /\ LoadableAddresses = {} => get_base_address(elf) = AllOnes

\* two loadable segments were decoded, the second lower than the first, behind
\* a segment that is not loadable, and the base address is the second's
C13_SecondSegmentIsLowest ==
  /\ SegmentsDecoded /\ file.ehdr.e_phnum >= 2
  /\ \E i, j \in 1..file.ehdr.e_phnum :
        /\ i < j
        /\ FileSegments[i].p_type = PT_LOAD /\ FileSegments[j].p_type = PT_LOAD
        /\ U64Less(FileSegments[j].p_vaddr, FileSegments[i].p_vaddr)
        /\ get_base_address(elf) = FileSegments[j].p_vaddr

\* the dynamic entries of the file
FileDynamic == file.at[Layout.dyn].recs

\* the tags of the dynamic entries of the file
FileTags == {FileDynamic[i].d_tag : i \in 1..Len(FileDynamic)}

\* parse_dynamic_segment has just returned from a reader that was constructed
\* without an error over a file with a dynamic segment, after it read the
\* dynamic entries
EntriesScanned ==
  /\ pc = "ready" /\ ret.op = "parse_dynamic_segment"
  /\ ~NoDynamicHeader(elf)
  /\ elf.is_open
  /\ elf.dynamic_entries = FileDynamic

\* the call failed reporting the string table or the symbol table as missing
ReportedMissing ==
  /\ ~ret.ok
  /\ error_message(elf) \in {"Failed to find dynamic string table",
                             "Failed to find symbol table"}

\* C14: a call of parse_dynamic_segment that scanned the dynamic entries fails
\* reporting a missing table exactly when the entries lack a DT_STRTAB, a
\* DT_STRSZ, a DT_SYMTAB or a DT_SYMENT entry; when all four are there,
\* whatever their values, no table is reported as missing.
C14_RequiredEntries ==
  EntriesScanned
  => (ReportedMissing
        <=> ~({DT_STRTAB, DT_STRSZ, DT_SYMTAB, DT_SYMENT} \subseteq FileTags))

\* the value of the last entry with the tag in the file's dynamic segment
FileEntry(tag) ==
  LET at == {i \in 1..Len(FileDynamic) : FileDynamic[i].d_tag = tag}
  IN FileDynamic[CHOOSE i \in at : \A j \in at : j <= i].d_val

\* the file offset derived from the pointer of the entry with the tag
DerivedOffset(tag) == FileEntry(tag) - get_base_address(elf)

\* the indices of the file's sections of type SHT_DYNSYM, and the header of
\* the first of them
DynsymSections ==
  {i \in 1..Len(FileSections) : FileSections[i].sh_type = SHT_DYNSYM}

FirstDynsym ==
  FileSections[CHOOSE i \in DynsymSections : \A j \in DynsymSections : i <= j]

\* parse_dynamic_segment has just scanned a dynamic segment that holds the
\* four required entries, and the file holds the string table they describe
TablesGiven ==
  /\ EntriesScanned
  /\ {DT_STRTAB, DT_STRSZ, DT_SYMTAB, DT_SYMENT} \subseteq FileTags
  /\ Region(file, DerivedOffset(DT_STRTAB)).kind = "strtab"
  /\ Len(Region(file, DerivedOffset(DT_STRTAB)).recs) >= FileEntry(DT_STRSZ)

\* C15: when the dynamic entries give the four required entries and the string
\* table could be read, parse_dynamic_segment (a) fails with "Symbol table
\* offsets don't match", and holds no dynamic symbol, whenever the DT_SYMTAB
\* pointer minus the base address differs from the file offset of the first
\* SHT_DYNSYM section, and (b) fails with an error when no section is of type
\* SHT_DYNSYM.
C15_SymbolTableCrossValidated ==
  TablesGiven
  => /\ (/\ DynsymSections # {}
         /\ DerivedOffset(DT_SYMTAB) # FirstDynsym.sh_offset)
          => /\ ~ret.ok
             /\ error_message(elf) = "Symbol table offsets don't match"
             /\ elf.dynamic_symbols = <<>>
     /\ DynsymSections = {} => (~ret.ok /\ error(elf))

\* the DT_NEEDED entries of the file, in the order of the dynamic segment
FileNeeded ==
  SelectSeq(FileDynamic, LAMBDA d : d.d_tag = DT_NEEDED)

\* the needed-library list has one element per DT_NEEDED entry of the file, in
\* the file's order, each the string at the entry's offset in the file's
\* dynamic string table
NeededAsInFile ==
  /\ Len(elf.needed_libraries) = Len(FileNeeded)
  /\ \A i \in 1..Len(FileNeeded) :
       Deref(elf, elf.needed_libraries[i])
         = CStr(file.at[DerivedOffset(DT_STRTAB)].recs, FileNeeded[i].d_val)

\* C16: after a call of parse_dynamic_segment that succeeded, the needed-library
\* list has one element per DT_NEEDED entry, in the order of the dynamic
\* segment, duplicates kept, and element i is the string at that entry's offset
\* in the dynamic string table.
C16_NeededLibraries ==
  (pc = "ready" /\ ret.op = "parse_dynamic_segment" /\ ret.ok)
  => NeededAsInFile

\* the step changes one of the two lifecycle lists of the reader
LifecycleListsChange ==
  \/ elf'.init_functions # elf.init_functions
  \/ elf'.fini_functions # elf.fini_functions

\* the messages of read_init_functions and read_term_functions about an array
LifecycleArrayErrors ==
  {"Invalid preinit array size", "Failed to read preinit array",
   "Invalid fini array size", "Failed to read fini array"}

\* C17: the lifecycle lists are read on demand: (a) after the constructor ran
\* and before any call of parse_dynamic_segment, the initializer and the
\* terminator list are empty, (b) the constructor does not fail over a
\* lifecycle array, and (c) only a call of parse_dynamic_segment changes the
\* two lists.
C17_LifecycleOnDemand ==
  /\ []((pc # "start" /\ calls = 0)
          => /\ elf.init_functions = <<>> /\ elf.fini_functions = <<>>
             /\ error_message(elf) \notin LifecycleArrayErrors)
  /\ [][LifecycleListsChange => ParseStep]_vars

\* what the first parse_dynamic_segment call on the reader constructed over
\* the file returns and leaves
FirstParse == parse_dynamic_segment(file, construct(file).e)

\* the entities decoded from the dynamic segment as a caller sees them: the
\* needed libraries' names, the SONAME, the symbols, the four relocation
\* groups and the two hash tables
Decoded(e) ==
  [needed  |-> [i \in 1..Len(e.needed_libraries) |->
                  Deref(e, e.needed_libraries[i])],
   so_name |-> Deref(e, e.so_name),
   symbols |-> e.dynamic_symbols,
   relocations |-> <<e.plt_rel_entries, e.dyn_rel_entries,
                     e.plt_rela_entries, e.dyn_rela_entries>>,
   hash |-> <<e.hash_buckets, e.hash_chains>>,
   gnu_hash |-> <<e.gnu_hash_buckets, e.gnu_hash_values,
                  e.gnu_hash_bloom_words, e.gnu_hash_bloom_shift,
                  e.gnu_hash_omitted_symbols_count>>]

\* C18: once a call of parse_dynamic_segment has succeeded, another call on
\* the same reader leaves the needed-library list, the SONAME, the dynamic
\* symbols, the relocation groups and the hash tables as the first call
\* produced them.
C18_ReparseKeepsDecoded ==
  [][(ParseStep /\ pc = "ready" /\ calls >= 1 /\ FirstParse.ok)
       => Decoded(elf') = Decoded(FirstParse.e)]_vars

\* C19: get_symbol always completes, by returning a symbol of the dynamic
\* symbol table or not-found: it never lets an exception escape, never reads
\* a symbol, chain, bloom-word or hash-value index outside its table, and
\* never fails to return.
C19_LookupCompletes ==
  /\ pc \notin {"ub", "threw", "hang"}
  /\ ret.op = "get_symbol"
       => /\ ret.sym.res \in {"found", "notfound"}
          /\ ret.sym.res = "found" => InRange(elf.dynamic_symbols, ret.sym.idx)

\* the digit of the number r places left of its last digit
DigitFromRight(number, r) == number[Len(number) - r] - Char0

\* the sum of the decimal digits of a number below 100
DigitSum(x) == (x \div 10) + (x % 10)

\* the Luhn checksum of the places r and up, counted from the right: the
\* digits at the odd places (the second-to-last is place 1) are doubled and
\* replaced by the sum of their digits
RECURSIVE LuhnSum(_, _)
LuhnSum(number, r) ==
  IF r >= Len(number) THEN 0
  ELSE (IF (r % 2) = 1 THEN DigitSum(2 * DigitFromRight(number, r))
        ELSE DigitFromRight(number, r))
         + LuhnSum(number, r + 1)

\* C20: once a card_number was constructed over a string of decimal digits,
\* its valid flag, which is what is_valid() returns and main prints, is true
\* exactly when the Luhn checksum of the string is divisible by 10; and every
\* number of the test program is valid.
C20_LuhnValidation ==
  (pc = "ready")
  => /\ card.valid <=> (LuhnSum(card.number, 0) % 10) = 0
     /\ ret.op = "main" => ret.ok = card.valid
     /\ card.number \in amex \cup mastercard \cup visa => card.valid

\* main printed that a number of the test program with an odd count of digits
\* is valid, by a checksum that is a multiple of 10 and not zero
C20_AmexNumberValid ==
  /\ pc = "ready" /\ ret.op = "main" /\ ret.ok
  /\ card.number \in amex /\ (Len(card.number) % 2) = 1
  /\ LuhnSum(card.number, 0) > 0

\* the dynamic program header of the file (the second program header of the
\* objects with a dynamic segment) and the size of a dynamic entry of its width
FileDynamicHeader == file.at[Layout.phdr].recs[2]

DynSize ==
  IF file.ident.ei_class = ELFCLASS64 THEN SizeofElf64_Dyn ELSE SizeofElf32_Dyn

\* the first n dynamic entries of the file
FirstEntries(n) == SubSeq(FileDynamic, 1, n)

\* parse_dynamic_segment has just returned, for the first time, from a reader
\* that was constructed without an error over a file with a dynamic segment
FirstParsed ==
  /\ pc = "ready" /\ ret.op = "parse_dynamic_segment" /\ calls = 1
  /\ elf.is_open /\ ~NoDynamicHeader(elf)
  /\ FileDynamicHeader.p_type = PT_DYNAMIC

\* the reader holds exactly the first n entries of the file, and scanned all
\* of them: every DT_NEEDED entry among them is in the needed-library list,
\* and no table described among them is reported as missing
DecodedAndScanned(n) ==
  /\ elf.dynamic_entries = FirstEntries(n)
  /\ Len(elf.needed_libraries)
       = Len(SelectSeq(FirstEntries(n), LAMBDA d : d.d_tag = DT_NEEDED))
  /\ (\A t \in {DT_STRTAB, DT_STRSZ, DT_SYMTAB, DT_SYMENT} :
        \E i \in 1..n : FileDynamic[i].d_tag = t /\ FileDynamic[i].d_val # 0)
       => ~ReportedMissing

\* C21 as stated: for every file size of the dynamic segment that the file can
\* deliver, parse_dynamic_segment decodes exactly file size / entry size
\* entries (entries of 8 bytes in a 32-bit, of 16 bytes in a 64-bit file),
\* those behind a DT_NULL entry included, and scans all of them.
C21_CountForEverySize ==
  (/\ FirstParsed
   /\ FileDynamicHeader.p_filesz \div DynSize <= Len(FileDynamic))
  => DecodedAndScanned(FileDynamicHeader.p_filesz \div DynSize)

\* C21 as amended: when the file size of the dynamic segment is a whole number
\* of entries that the file can deliver, parse_dynamic_segment decodes exactly
\* file size / entry size entries, those behind a DT_NULL entry included, and
\* scans all of them; when the size is not a whole number of entries, the call
\* fails with "Invalid dynamic segment size" and decodes no entry.
C21_DynamicEntryCount ==
  FirstParsed
  => /\ (/\ FileDynamicHeader.p_filesz % DynSize = 0
         /\ FileDynamicHeader.p_filesz \div DynSize <= Len(FileDynamic))
          => DecodedAndScanned(FileDynamicHeader.p_filesz \div DynSize)
     /\ FileDynamicHeader.p_filesz % DynSize # 0
          => /\ ~ret.ok
             /\ error_message(elf) = "Invalid dynamic segment size"
             /\ elf.dynamic_entries = <<>>

\* a parse succeeded over a segment whose table starts with a DT_NULL entry:
\* the entries behind it were decoded and gave the needed library
C21_DecodedBehindNull ==
  /\ FirstParsed /\ ret.ok
  /\ FileDynamic[1].d_tag = DT_NULL
  /\ Len(elf.dynamic_entries) = Len(FileDynamic) /\ Len(FileDynamic) > 1
  /\ Len(elf.needed_libraries) = 1

\* the type and the symbol index packed in the r_info word of an entry of the
\* file: the word mod and div 2^8 in a 32-bit file, mod and div 2^32 (the low
\* and the high half of the pair) in a 64-bit file
InfoType(info) ==
  IF file.ident.ei_class = ELFCLASS64 THEN info[1] ELSE info % (2 ^ 8)

InfoSym(info) ==
  IF file.ident.ei_class = ELFCLASS64 THEN info[2] ELSE info \div (2 ^ 8)

\* the group holds the entries that the section i of the file declares, each
\* with the offset, the unpacked type and symbol index and (rela) the addend
\* of its record
Unpacked(entries, i, rela) ==
  i # 0 =>
    LET h == FileSections[i]
        n == h.sh_size \div h.sh_entsize
    IN /\ Len(entries) = n
       /\ \A k \in 1..n :
            LET rec == file.at[h.sh_offset].recs[k]
            IN /\ entries[k].r_offset = rec.r_offset
               /\ entries[k].r_type = InfoType(rec.r_info)
               /\ entries[k].r_sym = InfoSym(rec.r_info)
               /\ rela => entries[k].r_addend = rec.r_addend

\* C22: after a parse that succeeded, every entry of the four relocation
\* groups has the offset of its record, as type r_info mod 2^8 and as symbol
\* index r_info div 2^8 in a 32-bit file, r_info mod 2^32 and r_info div 2^32
\* in a 64-bit file, and (with-addend groups) the record's addend with its
\* sign.
C22_RelocationUnpacking ==
  (pc = "ready" /\ ret.op = "parse_dynamic_segment" /\ ret.ok)
  => /\ Unpacked(elf.plt_rel_entries, LastRelocation(SHT_REL, ".rel.plt"), FALSE)
     /\ Unpacked(elf.dyn_rel_entries, LastRelocation(SHT_REL, ".rel.dyn"), FALSE)
     /\ Unpacked(elf.plt_rela_entries, LastRelocation(SHT_RELA, ".rela.plt"),
                 TRUE)
     /\ Unpacked(elf.dyn_rela_entries, LastRelocation(SHT_RELA, ".rela.dyn"),
                 TRUE)

\* a 32-bit file's with-addend entry of type 255, symbol index 2^23 - 1 and a
\* negative addend was decoded
C22_NegativeAddendUnpacked ==
  /\ pc = "ready" /\ ret.op = "parse_dynamic_segment" /\ ret.ok
  /\ is_32_bit(elf)
  /\ Len(elf.dyn_rela_entries) = 3
  /\ elf.dyn_rela_entries[1].r_type = 255
  /\ elf.dyn_rela_entries[1].r_sym = 8388607
  /\ elf.dyn_rela_entries[1].r_addend < 0

\* the GNU table of the file, and the names of the symbols it hashes (those
\* from the omitted count on)
FileGnuTable == file.at[SecOff(2)].recs[1]

HashedNames ==
  {Deref(elf, elf.dynamic_symbols[i].st_name_str) :
     i \in (elf.gnu_hash_omitted_symbols_count + 1)..Len(elf.dynamic_symbols)}

\* the file's filter has, for the name, the bits h1 mod 32 and
\* (h1 >> shift) mod 32 set in word (h1 / 32) & (bloom_word_count - 1)
SetInFilter32(name) ==
  LET h1 == Num(gnu_hash(name))
      t  == FileGnuTable
  IN {h1 % 32, (h1 \div (2 ^ t.bloom_shift)) % 32}
       \subseteq t.bloom[BitAnd(h1 \div 32, t.bloom_size - 1) + 1]

\* C23: in a 32-bit file whose filter has the two bits of every hashed symbol
\* set by the 32-bit rule, the name of a hashed symbol passes the bloom test
\* (the lookup goes on to read the bucket) and is found by the GNU lookup.
C23_BloomWidthFollowsClass ==
  (/\ pc = "ready" /\ ret.op = "get_symbol"
   /\ file.ident.ei_class = ELFCLASS32
   /\ elf.gnu_hash_buckets # <<>>
   /\ \A name \in HashedNames : SetInFilter32(name)
   /\ ret.name \in HashedNames)
  => /\ ret.sym.gnu.bucket
     /\ ret.sym.gnu.res = "found"

\* every bucket and every chain value is the index of a symbol, and the chain
\* array has an entry for every symbol
LegacyInRange ==
  /\ Len(elf.hash_chains) = Len(elf.dynamic_symbols)
  /\ \A i \in 1..Len(elf.hash_buckets) :
       elf.hash_buckets[i] < Len(elf.dynamic_symbols)
  /\ \A i \in 1..Len(elf.hash_chains) :
       elf.hash_chains[i] < Len(elf.dynamic_symbols)

\* C24: the walk of the legacy table ends for every bucket array, every
\* chain array over the symbols (chains that revisit an index included) and
\* every name: at a symbol whose name matches, or at the undefined index with
\* the result not-found.
C24_LegacyWalkEnds ==
  (/\ ret.op = "get_symbol" /\ ret.sym.legacy.res # "none"
   /\ elf.hash_buckets # <<>> /\ LegacyInRange)
  => ret.sym.legacy.res \in {"found", "notfound"}

\* djb2 over the integers: h := h * 33 + byte from 5381 (below 2^31 for names
\* of up to 3 bytes)
RECURSIVE Djb2From(_, _)
Djb2From(h, s) == IF s = <<>> THEN h ELSE Djb2From(h * 33 + Head(s), Tail(s))

Djb2(s) == Djb2From(5381, s)

\* C25: gnu_hash(name) is the djb2 hash reduced mod 2^32 (h := h * 33 + byte
\* from 5381): it is below 2^32, it is the integer djb2 value where that is
\* below 2^32, and it is the same under a 32-bit and under a 64-bit
\* accumulator.
C25_GnuHashIsDjb2 ==
  ret.op = "gnu_hash"
  => /\ ret.sym.hash[1] \in 0..(Half - 1) /\ ret.sym.hash[2] \in 0..(Half - 1)
     /\ \A w \in FastWidths : ret.sym.fast[w] = ret.sym.hash
     /\ Len(ret.name) <= 3 => Num(ret.sym.hash) = Djb2(ret.name)

\* the hash of a name of 11 bytes and more was computed: the 32-bit
\* accumulator wrapped, and the 64-bit accumulator holds bits above the 32nd
C25_LongNameHashed ==
  /\ ret.op = "gnu_hash" /\ Len(ret.name) >= 11
  /\ SubSeq(ret.sym.h[8], 5, 8) # <<0, 0, 0, 0>>
  /\ ret.sym.fast[4] = ret.sym.fast[8]

\* C26: whenever parse_dynamic_segment returned true, error() is false right
\* after it, whether or not an error had been recorded earlier.
C26_TrueResultCleanFlag ==
  (pc = "ready" /\ ret.op = "parse_dynamic_segment" /\ ret.ok) => ~error(elf)

\* C27: when the construction over the file recorded an error, every
\* parse_dynamic_segment call returns false and leaves the dynamic entries,
\* the symbols, the hash tables and the relocations empty.
C27_FailedConstructionDisablesParse ==
  (/\ pc = "ready" /\ ret.op = "parse_dynamic_segment"
   /\ error(construct(file).e))
  => /\ ~ret.ok
     /\ elf.dynamic_entries = <<>> /\ elf.dynamic_symbols = <<>>
     /\ elf.hash_buckets = <<>> /\ elf.hash_chains = <<>>
     /\ elf.gnu_hash_buckets = <<>> /\ elf.gnu_hash_values = <<>>
     /\ elf.gnu_hash_bloom_words = <<>>
     /\ elf.plt_rel_entries = <<>> /\ elf.dyn_rel_entries = <<>>
     /\ elf.plt_rela_entries = <<>> /\ elf.dyn_rela_entries = <<>>

\* the constructor has just run and read the section headers of the file
SectionsRead ==
  /\ HeaderRead /\ file.ehdr.e_phentsize = PhdrSize
  /\ Len(FileSegments) >= file.ehdr.e_phnum
  /\ file.ehdr.e_shentsize = ShdrSize
  /\ Len(FileSections) >= file.ehdr.e_shnum

\* the index of the section-name table cannot be taken (the escape, without a
\* section 0 to hold the link) or is not below the section count
NameIndexOutOfRange ==
  IF file.ehdr.e_shstrndx = SHN_XINDEX
    THEN file.ehdr.e_shnum = 0 \/ FileSections[1].sh_link >= file.ehdr.e_shnum
    ELSE file.ehdr.e_shstrndx >= file.ehdr.e_shnum

\* C28: once the constructor read the section headers, it indexes them for
\* the section-name table only below the section count (no access outside
\* the table), and a file of no section or of an index out of range is
\* rejected with an error.
C28_SectionNameIndexInRange ==
  SectionsRead
  => /\ pc # "ub"
     /\ NameIndexOutOfRange => (~ret.ok /\ error(elf))

\* the file's second section is a GNU table that omits more symbols than the
\* symbol table holds
OmitsMoreThanHeld ==
  /\ file.at[SecOff(2)].kind = "gnu_hash"
  /\ FileGnuTable.omitted_symbols_count > Len(FileSymbols)

\* C29: when the GNU table's omitted-symbol count exceeds the number of
\* dynamic symbols, parse_dynamic_segment returns false with an error
\* recorded (it does not go on with a count of secondary hash values that
\* wrapped around).
C29_GnuValueCountDoesNotWrap ==
  (ret.op = "parse_dynamic_segment" /\ OmitsMoreThanHeld)
  => /\ pc = "ready"
     /\ ~ret.ok /\ error(elf)

\* C30: after a parse that succeeded, get_so_name() is the null value it had
\* before the parse when the file has no SONAME entry, and the string at the
\* SONAME entry's offset in the dynamic string table when it has one.
C30_SonameAbsenceObservable ==
  (pc = "ready" /\ ret.op = "parse_dynamic_segment" /\ ret.ok)
  => /\ DT_SONAME \notin FileTags => elf.so_name = NewElf.so_name
     /\ (DT_SONAME \in FileTags /\ elf.dynamic_entries = FileDynamic)
          => Deref(elf, elf.so_name)
               = CStr(file.at[Layout.strtab].recs, FileEntry(DT_SONAME))

====
